---- MODULE Spec2Model ----
(***************************************************************************)
(* Model of `tanzu apps workload apply` (WorkloadApplyOptions.Exec,        *)
(* src/pkg/commands/workload_tree.go:431-620): one invocation of the       *)
(* command against a cluster, split at its suspension points (cluster      *)
(* calls, LSP calls, the consent prompt, the two wait races).              *)
(***************************************************************************)
EXTENDS Integers, Sequences, FiniteSets, TLC

\* ------------------------------------------------------------------ bounds
MaxTime == 2
MaxEvents == 2
MaxInvalid == 1
MaxRuns == 2
MaxLines == 1

\* --------------------------------------------------------- program values
mergeUpdateStrategy == "merge"
replaceUpdateStrategy == "replace"

LabelKeys == {"type", "keep"}
AnnotationKeys == {"note"}
LSPRef == "lsp:ref"
LSPPending == "lsp:pending"
LSPAnnotation == "local-source-proxy.apps.tanzu.vmware.com"

\* cluster keys (namespace, name)
KeyOf(ns, n) == <<ns, n>>
Keys == {KeyOf(ns, n) : ns \in {"default", "ns2"}, n \in {"w1", "fw"}}

\* a nil *string (serviceAccountName is a pointer: unset differs from empty)
NoValue == "<nil>"

\* &cartov1alpha1.Workload{}: every field at its zero value
EmptyWorkload ==
  [nil |-> FALSE, name |-> "", namespace |-> "",
   labels |-> [k \in LabelKeys |-> ""],
   annotations |-> [k \in AnnotationKeys |-> ""], lspAnn |-> "",
   git |-> "", image |-> "", subPath |-> "", maven |-> "", env |-> <<>>,
   serviceAccountName |-> NoValue,
   rv |-> 0, uid |-> "", creationTimestamp |-> 0,
   readyStatus |-> "None", ltt |-> 0]

\* a nil *cartov1alpha1.Workload
NilWorkload == [EmptyWorkload EXCEPT !.nil = TRUE]

\* the workers a raceWithTimeout call can run
Workers == {"statusChange", "ready", "tail", "timeout"}

\* no raceWithTimeout call is in progress
NoRace ==
  [phase |-> "none", state |-> [w \in Workers |-> "idle"], streams |-> {},
   cancel |-> FALSE, verdict |-> "", timeout |-> "",
   event |-> [readyStatus |-> "None", ltt |-> 0]]

\* --------------------------------------------------------------- variables
VARIABLES
  args,             \* the command line as parsed, before Exec rewrites Name/Namespace
  opts,             \* WorkloadApplyOptions (flags; Name/Namespace are rewritten by Exec)
  cluster,          \* the API server: key -> workload or NilWorkload
  namespaces,       \* namespaces that exist on the cluster
  stdinFile,        \* the document read by LoadInputWorkload
  fileWorkload,     \* Exec local
  workload,         \* Exec local
  currentWorkload,  \* Exec local (NilWorkload = nil)
  okToApply,        \* Exec local
  pc,               \* position inside Exec
  calls,            \* cluster / LSP / terminal interactions issued so far, in order
  out,              \* user-visible output, in order
  result,           \* "" while running, "ok" (nil error) or the error returned
  invalidAnswers,   \* invalid answers given to the current prompt
  events,           \* watch events delivered in the current race
  sawNewer,         \* some watch event carried lastTransitionTime > pre-submit value
  statusRace,       \* outcome of the status-change race: "", "done", "error"
  run,              \* which invocation of the command this is, the first being 1
  race              \* the raceWithTimeout call in progress: its workers and their streams

vars == <<args, opts, cluster, namespaces, stdinFile, fileWorkload, workload,
          currentWorkload, okToApply, pc, calls, out, result, invalidAnswers,
          events, sawNewer, statusRace, run, race>>

\* ------------------------------------------------------------ input spaces
\* documents a user can pass with --file (no status, no server metadata)
FileWorkloads ==
  { [EmptyWorkload EXCEPT !.name = "fw", !.namespace = "ns2",
                           !.labels = [k \in LabelKeys |-> IF k = "type" THEN "web" ELSE ""],
                           !.image = "img1", !.serviceAccountName = ""],
    [EmptyWorkload EXCEPT !.labels = [k \in LabelKeys |-> IF k = "keep" THEN "b" ELSE ""],
                           !.subPath = "sub"] }

\* workloads as stored by the API server
StoredWorkload(ns, n, st, t) ==
  [EmptyWorkload EXCEPT !.name = n, !.namespace = ns,
                         !.labels = [k \in LabelKeys |-> IF k = "type" THEN "web" ELSE "a"],
                         !.image = "img1", !.serviceAccountName = "sa1", !.rv = 1,
                         !.uid = "uid-1", !.creationTimestamp = 1,
                         !.readyStatus = st, !.ltt = t]

NoCluster == [k \in Keys |-> NilWorkload]

InitialClusters ==
  {NoCluster}
  \cup { [NoCluster EXCEPT ![KeyOf("default", "w1")] = StoredWorkload("default", "w1", "True", 1)],
         [NoCluster EXCEPT ![KeyOf("default", "w1")] = StoredWorkload("default", "w1", "None", 0)],
         [NoCluster EXCEPT ![KeyOf("ns2", "fw")] = StoredWorkload("ns2", "fw", "True", 1)] }

\* flag combinations accepted by WorkloadApplyOptions.Validate: an explicit
\* --update-strategy needs --file (lines 421-426)
OptionSets ==
  { o \in [Name : {"", "w1"}, Namespace : {"", "default", "ns2"},
           NamespaceChanged : BOOLEAN, FilePath : {"", "workload.yaml"},
           UpdateStrategy : {mergeUpdateStrategy, replaceUpdateStrategy},
           UpdateStrategyChanged : BOOLEAN,
           Yes : BOOLEAN, DryRun : BOOLEAN, Output : {"", "yaml"},
           Wait : BOOLEAN, Tail : BOOLEAN, TailTimestamps : BOOLEAN,
           LocalPath : {"", "./src"}, Type : {"", "api"},
           GitRepo : {""}, Image : {""}, MavenFlags : {""}, ParamsYamlMaven : {""},
           ServiceAccount : {NoValue}] :
      /\ (o.UpdateStrategyChanged <=> o.UpdateStrategy = replaceUpdateStrategy)
      /\ (o.UpdateStrategy = replaceUpdateStrategy => o.FilePath # "")
      /\ (o.Namespace = "ns2" => o.NamespaceChanged)
      /\ (o.NamespaceChanged => o.Namespace # "")
      /\ (o.TailTimestamps => ~o.Tail) }

Init ==
  /\ args \in OptionSets
  /\ opts = args
  /\ cluster \in InitialClusters
  /\ namespaces \in {{"default"}, {"default", "ns2"}}
  /\ \A k \in Keys : ~cluster[k].nil => k[1] \in namespaces
  /\ stdinFile \in (IF opts.FilePath = "" THEN {EmptyWorkload} ELSE FileWorkloads)
  /\ fileWorkload = EmptyWorkload
  /\ workload = EmptyWorkload
  /\ currentWorkload = NilWorkload
  /\ okToApply = FALSE
  /\ pc = "start"
  /\ calls = <<>>
  /\ out = <<>>
  /\ result = ""
  /\ invalidAnswers = 0
  /\ events = 0
  /\ sawNewer = FALSE
  /\ statusRace = ""
  /\ race = NoRace
  /\ run = 1

\* --------------------------------------------------------------- helpers
\* line 433
shouldPrint(o) == o.Output = "" \/ (o.Output # "" /\ ~o.Yes)

\* cli.PrintPrompt(shouldPrint, ...): prints only when shouldPrint
PrintPrompt(o, msg) == IF shouldPrint(o) THEN <<msg>> ELSE <<>>

\* `return err` / `return nil`
Return(r) == pc' = "done" /\ result' = r

WaitVarsUnchanged == UNCHANGED <<invalidAnswers, events, sawNewer, statusRace, race>>

RECURSIVE Join(_, _)
\* strings.Join
Join(names, sep) ==
  IF names = <<>> THEN ""
  ELSE IF Len(names) = 1 THEN names[1]
  ELSE names[1] \o sep \o Join(Tail(names), sep)

\* -------------------------------------------------- Exec, lines 431-460
\* the name / namespace Exec settles on once the file is loaded (lines 442-447)
NameFromFile(o, f) == IF o.Name = "" THEN f.name ELSE o.Name

NamespaceFromFileAlways(o, f) == IF f.namespace # "" THEN f.namespace ELSE o.Namespace

NamespaceFromFile(o, f) ==
  IF f.namespace # "" /\ ~o.NamespaceChanged THEN f.namespace ELSE o.Namespace

MissingFieldsNameOnly(o) == IF o.Name = "" THEN "MissingField(name)" ELSE ""

MissingFields(o) ==
  IF o.Name = "" /\ o.Namespace = "" THEN "MissingField(name,namespace)"
  ELSE IF o.Name = "" THEN "MissingField(name)"
  ELSE IF o.Namespace = "" THEN "MissingField(namespace)"
  ELSE ""

LoadInput ==
  /\ pc = "start"
  /\ \E loaded \in (IF opts.FilePath = "" THEN {TRUE} ELSE BOOLEAN) :
       LET notice == IF opts.FilePath # "" THEN PrintPrompt(opts, "StrategyNotice") ELSE <<>>
           f == IF opts.FilePath # "" THEN stdinFile ELSE EmptyWorkload
           o == IF opts.FilePath # ""
                  THEN [opts EXCEPT !.Name = NameFromFile(opts, f),
                                    !.Namespace = NamespaceFromFile(opts, f)]
                  ELSE opts
       IN /\ out' = out \o notice
          /\ IF ~loaded
               THEN /\ Return("LoadInputError")
                    /\ UNCHANGED <<opts, fileWorkload>>
               ELSE /\ fileWorkload' = f
                    /\ opts' = o
                    /\ IF MissingFields(o) # ""
                         THEN Return(MissingFields(o))
                         ELSE pc' = "get" /\ result' = result
  /\ UNCHANGED <<run, args, cluster, namespaces, stdinFile, workload, currentWorkload,
                 okToApply, calls>>
  /\ WaitVarsUnchanged

\* -------------------------------------------------- Exec, lines 462-476
\* errReturns is the `if !apierrs.IsNotFound(err) { return err }` of lines 468-470
GetStep(errReturns) ==
  /\ pc = "get"
  /\ LET key == KeyOf(opts.Namespace, opts.Name) IN
     \E failed \in BOOLEAN :
       IF failed
         THEN /\ calls' = Append(calls, "Get")
              /\ UNCHANGED <<workload, currentWorkload>>
              /\ IF errReturns
                   THEN Return("GetError")
                   ELSE pc' = "reconcile" /\ result' = result
         ELSE IF ~cluster[key].nil
           THEN /\ calls' = Append(calls, "Get")
                /\ workload' = cluster[key]
                /\ currentWorkload' = cluster[key]
                /\ pc' = "reconcile" /\ result' = result
           ELSE /\ calls' = calls \o <<"Get", "GetNamespace">>
                /\ UNCHANGED <<workload, currentWorkload>>
                /\ IF opts.Namespace \notin namespaces
                     THEN Return("NamespaceNotFound")
                     ELSE pc' = "reconcile" /\ result' = result
  /\ UNCHANGED <<run, args, opts, cluster, namespaces, stdinFile, fileWorkload, okToApply, out>>
  /\ WaitVarsUnchanged

GetWorkloadIgnoringError == GetStep(FALSE)

GetWorkload == GetStep(TRUE)

\* ---------------------------------------------------- workload primitives
\* Workload.Merge(updates): labels are united with the incoming value winning,
\* a non-zero incoming scalar wins
\* the source is a tagged variant {git | image | maven}: setting one kind
\* leaves nothing of the others
SetSource(w, kind, value) ==
  [w EXCEPT !.git = IF kind = "git" THEN value ELSE "",
            !.image = IF kind = "image" THEN value ELSE "",
            !.maven = IF kind = "maven" THEN value ELSE ""]

\* the source of updates, when it has one, becomes the source of w
MergeSource(w, updates) ==
  IF updates.git # "" THEN SetSource(w, "git", updates.git)
  ELSE IF updates.image # "" THEN SetSource(w, "image", updates.image)
  ELSE IF updates.maven # "" THEN SetSource(w, "maven", updates.maven)
  ELSE w

\* WorkloadSpec.MergeEnv of one variable: overwritten in place, else appended
MergeEnvVar(env, e) ==
  IF \E i \in DOMAIN env : env[i].name = e.name
    THEN [i \in DOMAIN env |-> IF env[i].name = e.name THEN e ELSE env[i]]
    ELSE Append(env, e)

RECURSIVE MergeEnv(_, _)
\* the incoming list is merged entry by entry, in incoming order
MergeEnv(env, updates) ==
  IF updates = <<>> THEN env
  ELSE MergeEnv(MergeEnvVar(env, Head(updates)), Tail(updates))

Merge(w, updates) ==
  [MergeSource(w, updates)
     EXCEPT !.labels = [k \in LabelKeys |->
                          IF updates.labels[k] # "" THEN updates.labels[k] ELSE w.labels[k]],
            !.annotations = [k \in AnnotationKeys |->
                               IF updates.annotations[k] # "" THEN updates.annotations[k]
                               ELSE w.annotations[k]],
            !.lspAnn = IF updates.lspAnn # "" THEN updates.lspAnn ELSE w.lspAnn,
            !.subPath = IF updates.subPath # "" THEN updates.subPath ELSE w.subPath,
            !.env = MergeEnv(w.env, updates.env),
            !.serviceAccountName = IF updates.serviceAccountName \notin {NoValue, ""}
                                     THEN updates.serviceAccountName
                                     ELSE w.serviceAccountName]

\* WorkloadSpec.MergeServiceAccountName: the empty string unsets the field
MergeServiceAccountName(w, serviceAccountName) ==
  [w EXCEPT !.serviceAccountName =
              IF serviceAccountName = "" THEN NoValue ELSE serviceAccountName]

\* Workload.ReplaceMetadata(previous): server-populated metadata is carried over
ReplaceMetadata(w, previous) ==
  IF previous.nil THEN w
  ELSE [w EXCEPT !.rv = previous.rv, !.uid = previous.uid,
                 !.creationTimestamp = previous.creationTimestamp]

\* WorkloadOptions.ApplyOptionsToWorkload: flags layered on the workload
\* the flags that set a source, as a workload carrying just that source; the
\* dedicated Maven flags overwrite a `maven` entry of --params-yaml
SourceFromFlags(o) ==
  [EmptyWorkload EXCEPT !.git = o.GitRepo,
                         !.image = IF o.Image # "" THEN o.Image
                                   ELSE IF o.LocalPath # "" THEN LSPPending
                                   ELSE "",
                         !.maven = IF o.MavenFlags # "" THEN o.MavenFlags
                                   ELSE o.ParamsYamlMaven]

ApplyOptionsToWorkload(o, current, w) ==
  LET typed == [w EXCEPT !.labels = [k \in LabelKeys |->
                          IF k = "type" /\ o.Type # "" THEN o.Type
                          ELSE IF k = "type" /\ current.nil /\ w.labels[k] = "" THEN "web"
                          ELSE w.labels[k]]]
      withAccount == IF o.ServiceAccount # NoValue
                       THEN MergeServiceAccountName(typed, o.ServiceAccount)
                       ELSE typed
  IN MergeSource(withAccount, SourceFromFlags(o))

\* the notice printed when Maven flags overwrite the `maven` of --params-yaml
MavenOverwriteNotice(o) ==
  IF o.MavenFlags # "" /\ o.ParamsYamlMaven # "" THEN <<"MavenOverwriteNotice">> ELSE <<>>

\* Workload.Validate: a subpath needs a source
Validate(w) ==
  IF w.subPath # "" /\ w.image = "" /\ w.git = "" THEN "ValidationError" ELSE ""

\* -------------------------------------------------- Exec, lines 478-512
\* lines 480-484: a nil serviceAccountName of the file is read as ""
serviceAccountCopy(f) ==
  IF f.serviceAccountName # NoValue THEN f.serviceAccountName ELSE ""

\* lines 479-488: the merge strategy
MergedBaseUnguarded(o, w, f) ==
  Merge(MergeServiceAccountName(w, serviceAccountCopy(f)), f)

MergedBase(o, w, f) ==
  Merge(IF o.FilePath # "" THEN MergeServiceAccountName(w, serviceAccountCopy(f)) ELSE w, f)

StrategyBaseAlwaysMerge(o, w, f, current) == MergedBase(o, w, f)

StrategyBaseAlwaysReplace(o, w, f, current) == ReplaceMetadata(f, current)

StrategyBaseMergeReversed(o, w, f, current) ==
  IF o.UpdateStrategy = mergeUpdateStrategy THEN MergedBase(o, f, w)
  ELSE ReplaceMetadata(f, current)

StrategyBaseNoMetadata(o, w, f, current) ==
  IF o.UpdateStrategy = mergeUpdateStrategy THEN MergedBase(o, w, f)
  ELSE IF o.UpdateStrategy = replaceUpdateStrategy THEN f
  ELSE w

StrategyBaseCurrentOnly(o, w, f, current) ==
  IF current.nil THEN w
  ELSE IF o.UpdateStrategy = mergeUpdateStrategy THEN MergedBase(o, w, f)
  ELSE IF o.UpdateStrategy = replaceUpdateStrategy THEN ReplaceMetadata(f, current)
  ELSE w

\* lines 478-498: the strategy picks the base of the proposed workload
StrategyBase(o, w, f, current) ==
  IF o.UpdateStrategy = mergeUpdateStrategy THEN MergedBase(o, w, f)
  ELSE IF o.UpdateStrategy = replaceUpdateStrategy THEN ReplaceMetadata(f, current)
  ELSE w

KeepIdentity(o, w) == w

\* lines 500-501
SetIdentity(o, w) == [w EXCEPT !.name = o.Name, !.namespace = o.Namespace]

\* line 502
workloadExists == ~currentWorkload.nil

\* under replace `workload = fileWorkload` makes both names one object (line 493)
Aliased(o, w, f) == IF o.UpdateStrategy = replaceUpdateStrategy THEN w ELSE f

ProposedFileLast(o, w, f, current) ==
  StrategyBase(o, ApplyOptionsToWorkload(o, current, SetIdentity(o, w)), f, current)

\* lines 478-504: the strategy's base, then the identity, then the flags
Proposed(o, w, f, current) ==
  ApplyOptionsToWorkload(o, current, SetIdentity(o, StrategyBase(o, w, f, current)))

\* errReturns is the `if err := errs.ToAggregate(); err != nil` of lines 508-512;
\* dryRunFirst puts the dry run of lines 514-517 before the validation
ReconcileStep(errReturns, dryRunFirst) ==
  /\ pc = "reconcile"
  /\ LET w == Proposed(opts, workload, fileWorkload, currentWorkload)
     IN /\ workload' = w
        /\ fileWorkload' = Aliased(opts, w, fileWorkload)
        /\ out' = out \o MavenOverwriteNotice(opts)
                       \o (IF dryRunFirst /\ opts.DryRun THEN <<"DryRunResource">>
                                                             ELSE <<>>)
        /\ IF errReturns /\ Validate(w) # ""
             THEN Return(Validate(w))
             ELSE pc' = "validated" /\ result' = result
  /\ UNCHANGED <<run, args, opts, cluster, namespaces, stdinFile, currentWorkload, okToApply,
                 calls>>
  /\ WaitVarsUnchanged

ReconcileUnvalidated == ReconcileStep(FALSE, FALSE)

ReconcileAfterDryRun == ReconcileStep(TRUE, TRUE)

Reconcile == ReconcileStep(TRUE, FALSE)

\* -------------------------------------------------- Exec, lines 514-517
DryRunIgnored(o) == FALSE

\* line 514 (and IsDryRun, line 622)
IsDryRun(o) == o.DryRun


DryRun ==
  /\ pc = "validated"
  /\ IsDryRun(opts)
  /\ out' = Append(out, "DryRunResource")
  /\ Return("ok")
  /\ UNCHANGED <<run, args, opts, cluster, namespaces, stdinFile, fileWorkload, workload,
                 currentWorkload, okToApply, calls>>
  /\ WaitVarsUnchanged

\* -------------------------------------------------- Exec, lines 519-528
useLSPNever(o, current) == FALSE

\* WorkloadOptions.useLSP: local source is published through the LSP
useLSP(o, current) == o.LocalPath # ""

\* checkLSPHealth outcomes: healthy, or one of the terminal errors
LSPHealthOutcomes == {"ok", "NoTransport", "302", "401", "404"}

\* envelope statuscode returned by a publish through the LSP
LSPPublishOutcomes == {"200", "204", "302", "401", "404", "500"}

LSPError(code) == "LSPError(" \o code \o ")"

\* lines 519-523
CheckLSPHealth ==
  /\ pc = "validated"
  /\ ~IsDryRun(opts)
  /\ IF useLSP(opts, currentWorkload)
       THEN \E h \in LSPHealthOutcomes :
              /\ calls' = Append(calls, "LSPHealth(" \o h \o ")")
              /\ IF h # "ok"
                   THEN Return(LSPError(h))
                   ELSE pc' = "publish" /\ result' = result
       ELSE /\ pc' = "publish"
            /\ UNCHANGED <<calls, result>>
  /\ UNCHANGED <<run, args, opts, cluster, namespaces, stdinFile, fileWorkload, workload,
                 currentWorkload, okToApply, out>>
  /\ WaitVarsUnchanged

\* WorkloadOptions.ManageLocalSourceProxyAnnotation: the annotation marks an
\* LSP-published image and is removed when the source is something else
ManageLocalSourceProxyAnnotation(o, current, w) ==
  IF useLSP(o, current) THEN [w EXCEPT !.lspAnn = w.image]
  ELSE IF w.image # LSPRef THEN [w EXCEPT !.lspAnn = ""]
  ELSE w

\* line 528
ManageAnnotation(annotate, o, current, w) ==
  IF annotate THEN ManageLocalSourceProxyAnnotation(o, current, w) ELSE w

\* lines 525-528: PublishLocalSource, then ManageLocalSourceProxyAnnotation;
\* errReturns is the `if err != nil { return err }` of lines 525-527, annotate
\* the call of line 528, reuse the use of the published reference when the
\* envelope says nothing was uploaded
PublishStep(errReturns, annotate, reuse) ==
  /\ pc = "publish"
  /\ IF opts.LocalPath # ""
       THEN \E code \in LSPPublishOutcomes :
              /\ calls' = Append(calls, "LSPPublish(" \o code \o ")")
              /\ IF errReturns /\ code \notin {"200", "204"}
                   THEN /\ Return(LSPError(code))
                        /\ UNCHANGED <<workload, fileWorkload>>
                   ELSE LET w == ManageAnnotation(annotate, opts, currentWorkload,
                                   IF code = "204" /\ ~reuse
                                     THEN workload
                                     ELSE SetSource(workload, "image", LSPRef))
                        IN /\ workload' = w
                           /\ fileWorkload' = Aliased(opts, w, fileWorkload)
                           /\ pc' = "submit" /\ result' = result
       ELSE LET w == ManageAnnotation(annotate, opts, currentWorkload, workload)
            IN /\ workload' = w
               /\ fileWorkload' = Aliased(opts, w, fileWorkload)
               /\ pc' = "submit"
               /\ UNCHANGED <<calls, result>>
  /\ UNCHANGED <<run, args, opts, cluster, namespaces, stdinFile, currentWorkload, okToApply, out>>
  /\ WaitVarsUnchanged

PublishLocalSourceIgnoringError == PublishStep(FALSE, TRUE, TRUE)

PublishLocalSourceUnannotated == PublishStep(TRUE, FALSE, TRUE)

PublishLocalSourceNotReused == PublishStep(TRUE, TRUE, FALSE)

PublishLocalSource == PublishStep(TRUE, TRUE, TRUE)

\* -------------------------------------------------- Exec, lines 530-566
\* printer.ResourceDiff compares the canonical forms of metadata and spec
Canonical(w) ==
  [name |-> w.name, namespace |-> w.namespace, labels |-> w.labels,
   annotations |-> w.annotations, lspAnn |-> w.lspAnn,
   git |-> w.git, image |-> w.image, subPath |-> w.subPath, maven |-> w.maven,
   env |-> w.env, serviceAccountName |-> w.serviceAccountName, rv |-> w.rv]

NoChange(current, w) == Canonical(current) = Canonical(w)

\* what the API server stores on a successful write
Stored(old, w) ==
  [w EXCEPT !.rv = w.rv + 1,
            !.uid = IF old.nil THEN "uid-new" ELSE w.uid,
            !.creationTimestamp = IF old.nil THEN 1 ELSE w.creationTimestamp,
            !.readyStatus = IF old.nil THEN "None" ELSE old.readyStatus,
            !.ltt = IF old.nil THEN 0 ELSE old.ltt]

\* lines 568-571
anyTail(o) == o.Tail \/ o.TailTimestamps

AfterSubmitUnguarded(o, ok, exists) ==
  IF o.Wait \/ anyTail(o)
    THEN (IF exists THEN "statusRace" ELSE "readyRace")
    ELSE IF o.Output # "" THEN "output" ELSE "done"

\* lines 568-617: where Exec goes once the submit branch is over
AfterSubmit(o, ok, exists) ==
  IF ~ok THEN "done"
  ELSE IF o.Wait \/ anyTail(o)
    THEN (IF exists THEN "statusRace" ELSE "readyRace")
    ELSE IF o.Output # "" THEN "output" ELSE "done"

\* line 572
WaitingNotice(o, ok) ==
  IF ok /\ (o.Wait \/ anyTail(o)) THEN PrintPrompt(o, "Waiting") ELSE <<>>

Goto(next) == IF next = "done" THEN Return("ok") ELSE pc' = next /\ result' = result

\* line 554
DirectSubmitGuard(o) == o.Output # "" /\ o.Yes

SubmitBranchOutputFirst(o) == IF o.Output # "" THEN "direct" ELSE "survey"

\* lines 532-554: `if shouldPrint {...} else if opts.Output != "" && opts.Yes {...}`
SubmitBranch(o) ==
  IF shouldPrint(o) THEN "survey"
  ELSE IF DirectSubmitGuard(o) THEN "direct"
  ELSE "none"

\* WorkloadOptions.Create / Update: the survey is skipped with --yes
NeedsPrompt(o) == ~o.Yes

\* lines 532-546: WorkloadOptions.Create / WorkloadOptions.Update up to the prompt
BeginSubmit ==
  /\ pc = "submit"
  /\ SubmitBranch(opts) = "survey"
  /\ IF workloadExists /\ NoChange(currentWorkload, workload)
       THEN /\ out' = Append(out, "Unchanged")
            /\ Goto(AfterSubmit(opts, FALSE, workloadExists))
       ELSE IF ~NeedsPrompt(opts)
         THEN /\ out' = Append(out, "Diff")
              /\ pc' = "call" /\ result' = result
         ELSE /\ out' = out \o <<"Diff", "Prompt">>
              /\ pc' = "prompt" /\ result' = result
  /\ UNCHANGED <<run, args, opts, cluster, namespaces, stdinFile, fileWorkload, workload,
                 currentWorkload, okToApply, calls>>
  /\ WaitVarsUnchanged

\* the end of the terminal's input
EndOfInput == <<"EOF">>

\* lines typed at the terminal, one character per element
Answers == {<<"y">>, <<"y", "e", "s">>, <<"n">>, <<"n", "o">>, <<"m">>}

AnswersAnyCase ==
  Answers \cup {<<>>, <<"Y">>, <<"N">>, <<"Y", "e", "s">>, <<"Y", "E", "S">>,
                <<"N", "o">>, <<"n", "O">>, <<"y", "e">>, <<"n", "o", "n">>,
                <<"y", "e", "s", "s">>}

Text(a) == Join(a, "")

ToLowerChar(c) ==
  CASE c = "Y" -> "y" [] c = "E" -> "e" [] c = "S" -> "s" [] c = "N" -> "n"
    [] c = "O" -> "o" [] c = "M" -> "m" [] OTHER -> c

ToLower(a) == [i \in DOMAIN a |-> ToLowerChar(a[i])]

ConfirmCaseSensitive(a) ==
  IF Text(a) \in {"y", "yes"} THEN "yes"
  ELSE IF Text(a) \in {"n", "no"} THEN "no"
  ELSE "invalid"

\* what the confirm survey makes of a line
Confirm(a) ==
  IF Text(ToLower(a)) \in {"y", "yes"} THEN "yes"
  ELSE IF Text(ToLower(a)) \in {"n", "no"} THEN "no"
  ELSE "invalid"

\* cli.NewConfirmSurvey(...).Resolve inside Create / Update
PromptStep(answers) ==
  /\ pc = "prompt"
  /\ \E a \in answers \cup {EndOfInput} :
       /\ calls' = Append(calls, "Answer(" \o Text(a) \o ")")
       /\ IF a = EndOfInput
            THEN /\ Return("PromptError")
                 /\ UNCHANGED <<out, invalidAnswers>>
          ELSE IF Confirm(a) = "yes"
            THEN /\ pc' = "call" /\ result' = result
                 /\ UNCHANGED <<out, invalidAnswers>>
          ELSE IF Confirm(a) = "no"
            THEN /\ out' = Append(out, "Skipping")
                 /\ Goto(AfterSubmit(opts, FALSE, workloadExists))
                 /\ UNCHANGED invalidAnswers
            ELSE /\ invalidAnswers < MaxInvalid
                 /\ invalidAnswers' = invalidAnswers + 1
                 /\ out' = out \o <<"InvalidInput", "Prompt">>
                 /\ UNCHANGED <<pc, result>>
  /\ UNCHANGED <<race, run, args, opts, cluster, namespaces, stdinFile, fileWorkload, workload,
                 currentWorkload, okToApply, events, sawNewer, statusRace>>

Prompt == PromptStep(Answers)

PromptAnyCase == PromptStep(AnswersAnyCase)

\* outcomes of a write to the API server
WriteOutcomes(exists) == IF exists THEN {"ok", "Conflict", "Error"} ELSE {"ok", "Error"}

WriteCallSwapped(exists) == IF exists THEN "Create" ELSE "Update"

\* line 536 / line 557: `if !workloadExists` picks Create, else Update
WriteCall(exists) == IF exists THEN "Update" ELSE "Create"

\* c.Create / c.Update inside WorkloadOptions.Create / WorkloadOptions.Update,
\* then lines 548-553
Submit ==
  /\ pc = "call"
  /\ LET key == KeyOf(workload.namespace, workload.name) IN
     \E r \in WriteOutcomes(workloadExists) :
       /\ calls' = Append(calls, WriteCall(workloadExists))
       /\ IF r = "ok"
            THEN /\ cluster' = [cluster EXCEPT ![key] = Stored(cluster[key], workload)]
                 /\ okToApply' = TRUE
                 /\ out' = out \o <<"Applied", "NextSteps">> \o WaitingNotice(opts, TRUE)
                 /\ Goto(AfterSubmit(opts, TRUE, workloadExists))
          ELSE IF r = "Conflict"
            THEN /\ out' = Append(out, "ConflictMessage")
                 /\ Return("SilencedConflict")
                 /\ UNCHANGED <<cluster, okToApply>>
            ELSE /\ Return("WriteError")
                 /\ UNCHANGED <<cluster, okToApply, out>>
  /\ UNCHANGED <<run, args, opts, namespaces, stdinFile, fileWorkload, workload, currentWorkload>>
  /\ WaitVarsUnchanged

\* lines 554-566: --output with --yes writes without diff or prompt
DirectSubmit ==
  /\ pc = "submit"
  /\ SubmitBranch(opts) # "survey"
  /\ IF SubmitBranch(opts) = "direct"
       THEN LET key == KeyOf(workload.namespace, workload.name) IN
            \E r \in WriteOutcomes(workloadExists) :
              /\ calls' = Append(calls, WriteCall(workloadExists))
              /\ okToApply' = opts.Yes
              /\ IF r = "ok"
                   THEN /\ cluster' = [cluster EXCEPT ![key] = Stored(cluster[key], workload)]
                        /\ out' = out \o WaitingNotice(opts, opts.Yes)
                        /\ Goto(AfterSubmit(opts, opts.Yes, workloadExists))
                   ELSE /\ Return(IF r = "Conflict" THEN "Conflict" ELSE "WriteError")
                        /\ UNCHANGED <<cluster, out>>
       ELSE /\ Return("ok")
            /\ UNCHANGED <<calls, okToApply, cluster, out>>
  /\ UNCHANGED <<run, args, opts, namespaces, stdinFile, fileWorkload, workload, currentWorkload>>
  /\ WaitVarsUnchanged

\* -------------------------------------------------- Exec, lines 574-588
\* what a watch event shows of the workload's Ready condition
WatchEvents ==
  { e \in [readyStatus : {"None", "True", "False", "Unknown"}, ltt : 0..MaxTime] :
      e.readyStatus = "None" => e.ltt = 0 }

\* lastTransitionTime of the Ready condition, below every time when there is none
TransitionTime(w) == IF w.readyStatus = "None" THEN -1 ELSE w.ltt

\* the event's Ready condition is newer than the one seen before the submit
Newer(previous, e) == e.readyStatus # "None" /\ e.ltt > TransitionTime(previous)

StatusChangedOrSame(previous, e) ==
  e.readyStatus # "None" /\ e.ltt >= TransitionTime(previous)

\* getStatusChangeWorker: done once the Ready condition has moved
StatusChanged(previous, e) == Newer(previous, e)

\* ways a race ends without its worker's verdict
RaceFailures(o) ==
  {"Timeout", "WatcherError"} \cup (IF anyTail(o) THEN {"TailError"} ELSE {})

\* the message of a Ready condition that is False
ConditionMessage == "a hopefully informative message about what went wrong"

\* --wait-timeout, and what the context may hold under WorkloadTimeoutStashKey
WaitTimeout == "1ns"

StashedTimeouts == {"", "30s", "soon"}

\* time.ParseDuration accepts the value
ParsesAsDuration(s) == s \in {"1ns", "30s"}

\* lines 577-583
StatusChangeTimeout(stashedTimeout) ==
  IF stashedTimeout # "" /\ ParsesAsDuration(stashedTimeout)
    THEN stashedTimeout
    ELSE WaitTimeout

\* the error of the timeout worker
TimeoutError(timeout, name) ==
  "timeout after " \o timeout \o " waiting for \"" \o name \o "\" to become ready"

\* the error of the readiness worker on Ready=False
FailedToBecomeReady(message) == "Failed to become ready: " \o message

\* the error a race ends with
RaceError(f, timeout, name) == IF f = "Timeout" THEN TimeoutError(timeout, name) ELSE f

\* the prefixes raceWithTimeout reports an error with (lines 585 and 596)
waitErrorForStatusChange == "ErrorWaitingForStatusChange"

waitErrorForReadyCondition == "ErrorWaitingForReadyCondition"

WaitErrorAlwaysReturns(o) == TRUE

\* line 585 and line 597: the wait error ends Exec only without --output
WaitErrorReturns(o) == o.Output = ""

StatusChangeEvent ==
  /\ pc = "statusRace"
  /\ events < MaxEvents
  /\ \E e \in WatchEvents :
       /\ sawNewer' = (sawNewer \/ Newer(currentWorkload, e))
       /\ IF StatusChanged(currentWorkload, e)
            THEN /\ pc' = "readyRace"
                 /\ statusRace' = "done"
                 /\ events' = 0
            ELSE /\ events' = events + 1
                 /\ UNCHANGED <<pc, statusRace>>
  /\ UNCHANGED <<race, run, args, opts, cluster, namespaces, stdinFile, fileWorkload, workload,
                 currentWorkload, okToApply, calls, out, result, invalidAnswers>>

StatusChangeStep(waitError) ==
  /\ pc = "statusRace"
  /\ \E f \in {"Timeout", "WatcherError"}, stashedTimeout \in StashedTimeouts :
       /\ out' = out \o <<waitError,
                           RaceError(f, StatusChangeTimeout(stashedTimeout), workload.name)>>
       /\ statusRace' = "error"
       /\ events' = 0
       /\ IF WaitErrorReturns(opts)
            THEN Return("StatusChange" \o f)
            ELSE pc' = "readyRace" /\ result' = result
  /\ UNCHANGED <<race, run, args, opts, cluster, namespaces, stdinFile, fileWorkload, workload,
                 currentWorkload, okToApply, calls, invalidAnswers, sawNewer>>

StatusChangeFailureAsReady == StatusChangeStep(waitErrorForReadyCondition)

StatusChangeFailure == StatusChangeStep(waitErrorForStatusChange)

\* -------------------------------------------------- Exec, lines 590-606
\* lines 608-617
AfterWait(o) == IF o.Output # "" THEN "output" ELSE "done"

\* guarded is the `if waitErr == nil` of line 603
ReadyStep(guarded) ==
  /\ pc = "readyRace"
  /\ events < MaxEvents
  /\ \E e \in WatchEvents :
       /\ sawNewer' = (sawNewer \/ Newer(currentWorkload, e))
       /\ IF e.readyStatus = "True"
            THEN /\ out' = out \o PrintPrompt(opts, "Ready")
                 /\ events' = 0
                 /\ Goto(AfterWait(opts))
          ELSE IF e.readyStatus = "False"
            THEN /\ events' = 0
                 /\ IF WaitErrorReturns(opts)
                      THEN /\ out' = out \o <<waitErrorForReadyCondition,
                                               FailedToBecomeReady(ConditionMessage)>>
                           /\ Return("FailedToBecomeReady")
                      ELSE /\ out' = out \o <<waitErrorForReadyCondition,
                                               FailedToBecomeReady(ConditionMessage)>>
                                       \o (IF guarded THEN <<>>
                                                      ELSE PrintPrompt(opts, "Ready"))
                           /\ Goto(AfterWait(opts))
            ELSE /\ events' = events + 1
                 /\ UNCHANGED <<pc, result, out>>
  /\ UNCHANGED <<race, run, args, opts, cluster, namespaces, stdinFile, fileWorkload, workload,
                 currentWorkload, okToApply, calls, invalidAnswers, statusRace>>

ReadyEventUnguarded == ReadyStep(FALSE)

ReadyEvent == ReadyStep(TRUE)

ReadyFailure ==
  /\ pc = "readyRace"
  /\ \E f \in RaceFailures(opts) :
       /\ out' = out \o <<waitErrorForReadyCondition, RaceError(f, WaitTimeout, workload.name)>>
       /\ events' = 0
       /\ IF WaitErrorReturns(opts)
            THEN Return("Ready" \o f)
            ELSE Goto(AfterWait(opts))
  /\ UNCHANGED <<race, run, args, opts, cluster, namespaces, stdinFile, fileWorkload, workload,
                 currentWorkload, okToApply, calls, invalidAnswers, sawNewer,
                 statusRace>>

\* -------------------------------------------------- Exec, lines 608-617
\* refetch is the c.Get of lines 610-612 into the in-memory workload
OutputStep(refetch) ==
  /\ pc = "output"
  /\ LET key == KeyOf(opts.Namespace, opts.Name) IN
     \E r \in {"ok", "GetError", "OutputError"} :
       /\ calls' = IF refetch THEN Append(calls, "Get") ELSE calls
       /\ IF refetch /\ (r = "GetError" \/ cluster[key].nil)
            THEN /\ Return("GetError")
                 /\ UNCHANGED <<workload, fileWorkload, out>>
            ELSE /\ workload' = IF refetch THEN cluster[key] ELSE workload
                 /\ fileWorkload' = Aliased(opts, workload', fileWorkload)
                 /\ IF r = "OutputError"
                      THEN Return("OutputError") /\ out' = out
                      ELSE Return("ok") /\ out' = Append(out, "Serialized")
  /\ UNCHANGED <<run, args, opts, cluster, namespaces, stdinFile, currentWorkload, okToApply>>
  /\ WaitVarsUnchanged

OutputWorkloadInMemory == OutputStep(FALSE)

OutputWorkload == OutputStep(TRUE)

\* ---------------------------------------------------------- specification
Next ==
  \/ LoadInput
  \/ GetWorkload
  \/ Reconcile
  \/ DryRun
  \/ CheckLSPHealth
  \/ PublishLocalSource
  \/ BeginSubmit
  \/ Prompt
  \/ Submit
  \/ DirectSubmit
  \/ StatusChangeEvent
  \/ StatusChangeFailure
  \/ ReadyEvent
  \/ ReadyFailure
  \/ OutputWorkload

Spec == Init /\ [][Next]_vars

\* ------------------------------------------- the content of the workload
\* A second specification: the same Exec, entered through Validate, run with
\* --yes over workloads, files and flags whose content varies.

ErrMultipleSourcesFirstOnly(names) ==
  "[" \o names[1] \o "]: Required value: expected exactly one, got multiple"

\* validation.ErrMultipleSources
ErrMultipleSources(names) ==
  "[" \o Join(names, ", ") \o "]: Required value: expected exactly one, got multiple"

\* the source kinds the flags name, in the order WorkloadOptions.Validate
\* reports them
SourceKinds(o) ==
  (IF o.MavenFlags # "" THEN <<"MavenFlagWildcard">> ELSE <<>>)
  \o (IF o.LocalPath # "" THEN <<"LocalPathAndSource">> ELSE <<>>)
  \o (IF o.Image # "" THEN <<"ImageFlagName">> ELSE <<>>)
  \o (IF o.GitRepo # "" THEN <<"GitFlagWildcard">> ELSE <<>>)

\* the literal file path that stands for stdin
StdinSentinel == "-"

\* validation.ErrMissingField: a Required field error without detail
ErrMissingField(field) == field \o ": Required value"

\* validation.EnumInvalidValue
EnumInvalidValue(value, field, values) ==
  field \o ": Unsupported value: \"" \o value \o "\": supported values: \""
        \o Join(values, "\", \"") \o "\""

\* validation.Enum
Enum(value, field, values) ==
  IF \E i \in DOMAIN values : values[i] = value
    THEN <<>>
    ELSE <<EnumInvalidValue(value, field, values)>>

\* the text of a list of field errors
Aggregate(errs) ==
  IF Len(errs) = 1 THEN errs[1] ELSE "[" \o Join(errs, ", ") \o "]"

\* WorkloadOptions.Validate: one source at most, and a document on stdin
\* leaves no terminal to ask for consent
WorkloadOptionsValidate(o) ==
  (IF Len(SourceKinds(o)) > 1 THEN <<ErrMultipleSources(SourceKinds(o))>> ELSE <<>>)
  \o (IF o.FilePath = StdinSentinel /\ ~o.Yes /\ ~o.DryRun
        THEN <<ErrMissingField("--yes")>> ELSE <<>>)

\* lines 421-426
UpdateStrategyErrors(changed, o) ==
  IF o.UpdateStrategy # "" /\ changed
    THEN (IF o.FilePath = "" THEN <<ErrMissingField("--file")>> ELSE <<>>)
         \o Enum(o.UpdateStrategy, "--update-strategy",
                 <<mergeUpdateStrategy, replaceUpdateStrategy>>)
    ELSE <<>>

WorkloadApplyOptionsValidateOwnOnly(o) == UpdateStrategyErrors(o.UpdateStrategyChanged, o)

\* WorkloadApplyOptions.Validate, lines 417-429
WorkloadApplyOptionsValidate(o) ==
  WorkloadOptionsValidate(o) \o UpdateStrategyErrors(o.UpdateStrategyChanged, o)

\* the command validates its options before Exec, which runs only when
\* Validate finds no error
ValidateOptions ==
  /\ pc = "validate"
  /\ IF WorkloadApplyOptionsValidate(opts) # <<>>
       THEN Return(Aggregate(WorkloadApplyOptionsValidate(opts)))
       ELSE pc' = "start" /\ result' = result
  /\ UNCHANGED <<run, args, opts, cluster, namespaces, stdinFile, fileWorkload, workload,
                 currentWorkload, okToApply, calls, out>>
  /\ WaitVarsUnchanged

EnvVar(n, v) == [name |-> n, value |-> v]

\* documents passed with --file: none names the workload
ContentFileWorkloads ==
  { [EmptyWorkload EXCEPT !.labels = [k \in LabelKeys |-> IF k = "keep" THEN "b" ELSE ""],
                           !.annotations = [k \in AnnotationKeys |-> "n-file"],
                           !.git = "repoF",
                           !.env = <<EnvVar("B", "2"), EnvVar("A", "9")>>],
    [EmptyWorkload EXCEPT !.labels = [k \in LabelKeys |-> IF k = "type" THEN "web" ELSE ""],
                           !.image = "imgF", !.serviceAccountName = "saF",
                           !.rv = 7, !.uid = "uid-file", !.creationTimestamp = 5],
    [EmptyWorkload EXCEPT !.lspAnn = LSPRef, !.serviceAccountName = ""],
    [EmptyWorkload EXCEPT !.lspAnn = LSPRef, !.git = "repoF"],
    [EmptyWorkload EXCEPT !.maven = "mvn-file", !.env = <<EnvVar("C", "3")>>] }

\* what the cluster holds under default/w1 before the command runs
ContentWorkloads ==
  LET stored == StoredWorkload("default", "w1", "True", 1) IN
  { NilWorkload,
    [stored EXCEPT !.env = <<EnvVar("A", "1"), EnvVar("C", "3")>>],
    [stored EXCEPT !.image = LSPRef, !.lspAnn = LSPRef,
                   !.annotations = [k \in AnnotationKeys |-> "n-cur"]],
    [stored EXCEPT !.image = "", !.git = "repo1", !.serviceAccountName = NoValue,
                   !.env = <<EnvVar("A", "1"), EnvVar("B", "5")>>] }

\* command lines of `apply w1 --yes`; --params-yaml sets a maven entry only
\* when no git, image or local-path flag is given
ContentOptionSets ==
  { o \in [Name : {"w1"}, Namespace : {"default"}, NamespaceChanged : {FALSE},
           FilePath : {"", "workload.yaml"},
           UpdateStrategy : {mergeUpdateStrategy, replaceUpdateStrategy},
           UpdateStrategyChanged : BOOLEAN,
           Yes : {TRUE}, DryRun : {FALSE}, Output : {""},
           Wait : {FALSE}, Tail : {FALSE}, TailTimestamps : {FALSE},
           LocalPath : {"", "./src"}, Type : {"", "api"},
           GitRepo : {"", "repo2"}, Image : {"", "img2"},
           MavenFlags : {"", "mvn-flags"}, ParamsYamlMaven : {"", "mvn-params"},
           ServiceAccount : {NoValue, "", "sa2"}] :
      /\ (o.UpdateStrategyChanged <=> o.UpdateStrategy = replaceUpdateStrategy)
      /\ (o.UpdateStrategy = replaceUpdateStrategy => o.FilePath # "")
      /\ (o.ParamsYamlMaven # "" => (o.GitRepo = "" /\ o.Image = "" /\ o.LocalPath = "")) }

ContentInit ==
  /\ args \in ContentOptionSets
  /\ opts = args
  /\ \E w \in ContentWorkloads : cluster = [NoCluster EXCEPT ![KeyOf("default", "w1")] = w]
  /\ namespaces = {"default"}
  /\ stdinFile \in (IF opts.FilePath = "" THEN {EmptyWorkload} ELSE ContentFileWorkloads)
  /\ fileWorkload = EmptyWorkload
  /\ workload = EmptyWorkload
  /\ currentWorkload = NilWorkload
  /\ okToApply = FALSE
  /\ pc = "validate"
  /\ calls = <<>>
  /\ out = <<>>
  /\ result = ""
  /\ invalidAnswers = 0
  /\ events = 0
  /\ sawNewer = FALSE
  /\ statusRace = ""
  /\ race = NoRace
  /\ run = 1

ContentNext ==
  \/ ValidateOptions
  \/ LoadInput
  \/ GetWorkload
  \/ Reconcile
  \/ CheckLSPHealth
  \/ PublishLocalSource
  \/ BeginSubmit
  \/ Submit

ContentSpec == ContentInit /\ [][ContentNext]_vars

\* ------------------------------------------------ one command line, twice
\* command lines of `apply w1 --local-path ./src --yes`
TwiceOptionSets ==
  { o \in [Name : {"w1"}, Namespace : {"default"}, NamespaceChanged : {FALSE},
           FilePath : {"", "workload.yaml"},
           UpdateStrategy : {mergeUpdateStrategy, replaceUpdateStrategy},
           UpdateStrategyChanged : BOOLEAN,
           Yes : {TRUE}, DryRun : {FALSE}, Output : {""},
           Wait : {FALSE}, Tail : {FALSE}, TailTimestamps : {FALSE},
           LocalPath : {"./src"}, Type : {"", "api"},
           GitRepo : {""}, Image : {""}, MavenFlags : {""}, ParamsYamlMaven : {""},
           ServiceAccount : {NoValue, "", "sa2"}] :
      /\ (o.UpdateStrategyChanged <=> o.UpdateStrategy = replaceUpdateStrategy)
      /\ (o.UpdateStrategy = replaceUpdateStrategy => o.FilePath # "") }

TwiceInit ==
  /\ args \in TwiceOptionSets
  /\ opts = args
  /\ \E w \in ContentWorkloads : cluster = [NoCluster EXCEPT ![KeyOf("default", "w1")] = w]
  /\ namespaces = {"default"}
  /\ stdinFile \in (IF opts.FilePath = "" THEN {EmptyWorkload} ELSE ContentFileWorkloads)
  /\ fileWorkload = EmptyWorkload
  /\ workload = EmptyWorkload
  /\ currentWorkload = NilWorkload
  /\ okToApply = FALSE
  /\ pc = "validate"
  /\ calls = <<>>
  /\ out = <<>>
  /\ result = ""
  /\ invalidAnswers = 0
  /\ events = 0
  /\ sawNewer = FALSE
  /\ statusRace = ""
  /\ race = NoRace
  /\ run = 1

\* the command has returned without error and is invoked again with the same
\* command line, file and directory; the cluster is as the last run left it
ApplyAgain ==
  /\ pc = "done" /\ result = "ok"
  /\ run < MaxRuns
  /\ run' = run + 1
  /\ opts' = args
  /\ fileWorkload' = EmptyWorkload
  /\ workload' = EmptyWorkload
  /\ currentWorkload' = NilWorkload
  /\ okToApply' = FALSE
  /\ pc' = "validate"
  /\ calls' = <<>>
  /\ out' = <<>>
  /\ result' = ""
  /\ UNCHANGED <<args, cluster, namespaces, stdinFile>>
  /\ WaitVarsUnchanged

TwiceNext == ContentNext \/ ApplyAgain

TwiceSpec == TwiceInit /\ [][TwiceNext]_vars

\* ------------------------------------------- the validation of the options
\* documents passed with --file or on stdin
OptionsFileWorkloads ==
  { [EmptyWorkload EXCEPT !.name = "fw", !.image = "imgF"],
    [EmptyWorkload EXCEPT !.git = "repoF"] }

\* command lines of `apply [w1] [--file F] [--update-strategy S] [--yes]
\* [--dry-run]`: an update strategy that was not set on the command line has
\* its default, merge (line 656)
OptionsOptionSets ==
  { o \in [Name : {"", "w1"}, Namespace : {"default"}, NamespaceChanged : {FALSE},
           FilePath : {"", "workload.yaml", StdinSentinel},
           UpdateStrategy : {"", mergeUpdateStrategy, replaceUpdateStrategy, "invalid"},
           UpdateStrategyChanged : BOOLEAN,
           Yes : BOOLEAN, DryRun : BOOLEAN, Output : {""},
           Wait : {FALSE}, Tail : {FALSE}, TailTimestamps : {FALSE},
           LocalPath : {""}, Type : {""},
           GitRepo : {"", "repo2"}, Image : {"", "img2"},
           MavenFlags : {""}, ParamsYamlMaven : {""},
           ServiceAccount : {NoValue}] :
      ~o.UpdateStrategyChanged => o.UpdateStrategy = mergeUpdateStrategy }

OptionsInit ==
  /\ args \in OptionsOptionSets
  /\ opts = args
  /\ \E w \in {NilWorkload, StoredWorkload("default", "w1", "True", 1)} :
       cluster = [NoCluster EXCEPT ![KeyOf("default", "w1")] = w]
  /\ namespaces = {"default"}
  /\ stdinFile \in (IF opts.FilePath = "" THEN {EmptyWorkload} ELSE OptionsFileWorkloads)
  /\ fileWorkload = EmptyWorkload
  /\ workload = EmptyWorkload
  /\ currentWorkload = NilWorkload
  /\ okToApply = FALSE
  /\ pc = "validate"
  /\ calls = <<>>
  /\ out = <<>>
  /\ result = ""
  /\ invalidAnswers = 0
  /\ events = 0
  /\ sawNewer = FALSE
  /\ statusRace = ""
  /\ race = NoRace
  /\ run = 1

OptionsNext ==
  \/ ValidateOptions
  \/ LoadInput
  \/ GetWorkload
  \/ Reconcile
  \/ DryRun
  \/ CheckLSPHealth
  \/ PublishLocalSource
  \/ BeginSubmit
  \/ PromptAnyCase
  \/ Submit

OptionsSpec == OptionsInit /\ [][OptionsNext]_vars

\* ============================================================ properties
Has(seq, x) == \E i \in DOMAIN seq : seq[i] = x

Count(seq, x) == Cardinality({i \in DOMAIN seq : seq[i] = x})

Last(seq) == IF seq = <<>> THEN "" ELSE seq[Len(seq)]

\* mutating cluster calls issued so far
Writes(seq) == Count(seq, "Create") + Count(seq, "Update")

Consented(seq) == Has(seq, "Answer(y)") \/ Has(seq, "Answer(yes)")

Declined(seq) == Has(seq, "Answer(n)") \/ Has(seq, "Answer(no)")

\* --------------------------------------------------------------------- C1
\* C1: without --yes and without --dry-run, no step issues a Create or an
\* Update or changes the cluster unless the consent prompt has been answered
\* y / yes; with no answer or a negative answer the cluster is unchanged.
ConsentGating ==
  [][(~opts.Yes /\ ~opts.DryRun /\ ~Consented(calls'))
       => (cluster' = cluster /\ Writes(calls') = 0)]_vars

\* the prompt was shown and got no answer: Exec is over and nothing was written
ConsentGatingWitness ==
  /\ ~opts.Yes /\ ~opts.DryRun
  /\ Has(out, "Prompt") /\ Last(calls) = "Answer(EOF)"
  /\ pc = "done" /\ Writes(calls) = 0

\* --------------------------------------------------------------------- C2
\* C2: whenever the workload exists and the proposed workload equals the
\* current one in canonical form, the submit step issues no Update and prints
\* `Workload is unchanged, skipping update`, for every combination of --yes
\* and --output.
UnchangedSkip ==
  [][(pc = "submit" /\ workloadExists /\ NoChange(currentWorkload, workload))
       => (~Has(calls', "Update") /\ Has(out', "Unchanged"))]_vars

\* --------------------------------------------------------------------- C3
\* C3: on an update with waiting enabled, `Workload "NAME" is ready` is never
\* reported unless some watch event carried a condition whose
\* lastTransitionTime strictly exceeds the pre-submit value; when no such
\* event is delivered the wait ends with the status-change error.
StaleReadyProtection ==
  (workloadExists /\ okToApply /\ (opts.Wait \/ anyTail(opts)))
    => /\ (Has(out, "Ready") => sawNewer)
       /\ ((pc = "done" /\ ~sawNewer /\ result # "WriteError" /\ result # "Conflict")
             => (Has(out, "ErrorWaitingForStatusChange") /\ ~Has(out, "Ready")))

\* --------------------------------------------------------------------- C4
\* C4: with --dry-run no Create or Update is issued, nothing is published
\* to (or asked of) the LSP, no prompt is shown and no wait worker is started;
\* once the proposed workload is valid the next step emits it and returns
\* success, whether or not the workload exists.
DryRunInv ==
  opts.DryRun =>
    /\ Writes(calls) = 0
    /\ \A i \in DOMAIN calls : calls[i] \in {"Get", "GetNamespace"}
    /\ ~Has(out, "Prompt") /\ ~Has(out, "Waiting")
    /\ pc \in {"start", "get", "reconcile", "validated", "done"}
    /\ (Has(out, "DryRunResource") => (pc = "done" /\ result = "ok"))

DryRunNoEffect ==
  /\ []DryRunInv
  /\ [][(opts.DryRun /\ pc = "validated")
          => /\ pc' = "done" /\ result' = "ok"
             /\ out' = Append(out, "DryRunResource")
             /\ cluster' = cluster /\ calls' = calls]_vars

\* a dry run over an existing workload with --local-path, --wait and no --yes
DryRunNoEffectWitness ==
  /\ opts.DryRun /\ opts.LocalPath # "" /\ opts.Wait /\ ~opts.Yes
  /\ workloadExists
  /\ Has(out, "DryRunResource") /\ result = "ok"

\* --------------------------------------------------------------------- C5
\* C5: whenever the Update returns a Conflict the command fails with the
\* message `conflict updating workload, ...; please run the update command
\* again`, on every update path, and exactly one Update was attempted.
ConflictSurfaced ==
  (pc = "done" /\ result \in {"SilencedConflict", "Conflict"})
    => (Has(out, "ConflictMessage") /\ Count(calls, "Update") = 1)

\* --------------------------------------------------------------------- C6
\* C6: an invocation issues at most one mutating call (so a failed one is not
\* retried); a Create only after the initial Get returned NotFound, an Update
\* only after the initial Get succeeded, never both.
GetNotFound == Len(calls) >= 2 /\ calls[1] = "Get" /\ calls[2] = "GetNamespace"

GetFound == Len(calls) >= 2 /\ calls[1] = "Get" /\ calls[2] # "GetNamespace"

SingleSubmission ==
  /\ Writes(calls) <= 1
  /\ (Has(calls, "Create") => (currentWorkload.nil /\ GetNotFound))
  /\ (Has(calls, "Update") => (~currentWorkload.nil /\ GetFound))

\* a Create that failed: Exec is over with the error and no second call
SingleSubmissionWitness ==
  /\ Has(calls, "Create") /\ result = "WriteError" /\ pc = "done"

\* --------------------------------------------------------------------- C7
\* C7: under merge and replace, for every file, the workload that is
\* validated, diffed and submitted carries the final identity: the positional
\* NAME, else the file's name; the --namespace flag, else the file's
\* namespace, else the default namespace.  Every stored workload sits under
\* its own key.
FinalName == IF args.Name # "" THEN args.Name ELSE stdinFile.name

FinalNamespace ==
  IF args.NamespaceChanged THEN args.Namespace
  ELSE IF stdinFile.namespace # "" THEN stdinFile.namespace
  ELSE args.Namespace

Reconciled ==
  \/ pc \in {"validated", "publish", "submit", "prompt", "call", "statusRace",
             "readyRace", "output"}
  \/ (pc = "done" /\ result \notin
        {"LoadInputError", "MissingField(name)", "MissingField(namespace)",
         "MissingField(name,namespace)", "GetError", "NamespaceNotFound"})
  \/ (pc = "done" /\ result = "GetError" /\ Len(calls) > 1)

IdentityFrozen ==
  /\ Reconciled => /\ workload.name = FinalName
                   /\ workload.namespace = FinalNamespace
  /\ \A k \in Keys : ~cluster[k].nil => k = KeyOf(cluster[k].namespace, cluster[k].name)
  /\ (Writes(calls) = 1 /\ okToApply /\ result \notin {"WriteError", "Conflict"})
       => ~cluster[KeyOf(FinalNamespace, FinalName)].nil

\* replace with a file named fw in ns2, applied as `w1 --namespace ns2`
IdentityFrozenWitness ==
  /\ args.Name = "w1" /\ args.NamespaceChanged
  /\ stdinFile.name = "fw" /\ opts.UpdateStrategy = replaceUpdateStrategy
  /\ Writes(calls) = 1 /\ result = "ok"
  /\ ~cluster[KeyOf("ns2", "w1")].nil

\* --------------------------------------------------------------------- C8
\* C8 (as stated): if a wait phase fails and --output is not set the command
\* returns an error; if --output is set the workload is refetched, its
\* serialization is printed and the command returns success.
WaitFailed ==
  Has(out, "ErrorWaitingForStatusChange") \/ Has(out, "ErrorWaitingForReadyCondition")

WaitErrors ==
  {"StatusChangeTimeout", "StatusChangeWatcherError", "ReadyTimeout",
   "ReadyWatcherError", "ReadyTailError", "FailedToBecomeReady"}

WaitFailureOutput ==
  (pc = "done" /\ WaitFailed)
    => IF opts.Output = ""
         THEN result \in WaitErrors
         ELSE result = "ok" /\ Last(out) = "Serialized" /\ Last(calls) = "Get"

\* C8 (amended): if a wait phase fails and --output is not set the command
\* returns the wait error at once; if --output is set the wait error is only
\* logged and the workload is refetched: when the refetch and the
\* serialization succeed the serialization is printed and the command returns
\* success, when one of them fails that error is returned and nothing is
\* serialized.
WaitFailureOutputAmended ==
  WaitFailed
    => IF opts.Output = ""
         THEN pc = "done" /\ result \in WaitErrors
         ELSE pc = "done" =>
                /\ Last(calls) = "Get"
                /\ \/ (result = "ok" /\ Last(out) = "Serialized")
                   \/ (result \in {"GetError", "OutputError"} /\ ~Has(out, "Serialized"))

\* a failed wait under --output that still ended with the serialized workload
WaitFailureOutputWitness ==
  /\ pc = "done" /\ WaitFailed /\ opts.Output # ""
  /\ result = "ok" /\ Last(out) = "Serialized"

\* --------------------------------------------------------------------- C9
\* C9: once the prompt is answered n / no the command has printed
\* `Skipping workload`, returned success, issued no Create or Update,
\* started no wait and printed no serialized resource, whatever --wait,
\* --tail and --output say.
RejectedConsent ==
  Declined(calls)
    => /\ pc = "done" /\ result = "ok"
       /\ Last(out) = "Skipping"
       /\ Writes(calls) = 0
       /\ Last(calls) \in {"Answer(n)", "Answer(no)"}
       /\ ~Has(out, "Waiting") /\ ~Has(out, "Serialized")
       /\ statusRace = "" /\ ~okToApply

\* an update declined although --output and --wait were given
RejectedConsentWitness ==
  /\ Declined(calls) /\ workloadExists
  /\ opts.Output # "" /\ opts.Wait /\ opts.Tail

\* -------------------------------------------------------------------- C10
\* C10: once the LSP health check or the LSP publish has failed, the command
\* is over with that error, the failed call is the last call (no retry, no
\* Create, no Update).
LSPFailures ==
  {<<"LSPHealth(" \o h \o ")", LSPError(h)>> : h \in LSPHealthOutcomes \ {"ok"}}
  \cup {<<"LSPPublish(" \o c \o ")", LSPError(c)>> : c \in LSPPublishOutcomes \ {"200", "204"}}

LSPErrorsTerminal ==
  \A i \in DOMAIN calls : \A f \in LSPFailures :
    calls[i] = f[1] => /\ i = Len(calls)
                       /\ pc = "done" /\ result = f[2]
                       /\ Writes(calls) = 0

\* a publish answered with envelope statuscode 500 while updating
LSPErrorsTerminalWitness ==
  /\ Last(calls) = "LSPPublish(500)" /\ workloadExists
  /\ pc = "done" /\ opts.Yes

\* -------------------------------------------------------------------- C11
\* a Create or an Update was issued: `workload` is what it carried
Submitted == Writes(calls) = 1

TargetKey == KeyOf("default", "w1")

\* C11: every workload submitted by apply carries the LSP annotation only if
\* its source is the LSP-published image, and then the annotation equals that
\* reference; an apply with --local-path submits it with the annotation set,
\* an apply that sets a git or an image source submits it without, and an
\* annotation that comes from the file is dropped when the source is not the
\* LSP image.  What the cluster holds stays consistent after the apply.
LSPAnnotationConsistency ==
  /\ Submitted =>
       /\ (workload.lspAnn # "" => (workload.image = LSPRef /\ workload.lspAnn = workload.image))
       /\ (opts.LocalPath # "" => workload.lspAnn = LSPRef)
       /\ ((opts.GitRepo # "" \/ opts.Image # "") => workload.lspAnn = "")
       /\ ((stdinFile.lspAnn # "" /\ workload.image # LSPRef) => workload.lspAnn = "")
  /\ \A k \in Keys :
       (~cluster[k].nil /\ cluster[k].lspAnn # "")
         => (cluster[k].image = LSPRef /\ cluster[k].lspAnn = LSPRef)

\* an LSP workload updated with --git-repo: stored without the annotation
LSPAnnotationConsistencyWitness ==
  /\ currentWorkload.lspAnn = LSPRef /\ opts.GitRepo # ""
  /\ Has(calls, "Update") /\ result = "ok"
  /\ cluster[TargetKey].lspAnn = "" /\ cluster[TargetKey].git = "repo2"

\* -------------------------------------------------------------------- C12
\* C12: under the replace strategy with an existing workload, the submitted
\* workload's resourceVersion, uid and creationTimestamp equal those of the
\* current cluster workload, whatever the file says.
ReplacePreservation ==
  (Submitted /\ opts.UpdateStrategy = replaceUpdateStrategy /\ workloadExists)
    => /\ workload.rv = currentWorkload.rv
       /\ workload.uid = currentWorkload.uid
       /\ workload.creationTimestamp = currentWorkload.creationTimestamp

\* a file that carries its own system metadata replaces an existing workload
ReplacePreservationWitness ==
  /\ opts.UpdateStrategy = replaceUpdateStrategy
  /\ stdinFile.rv = 7 /\ stdinFile.uid = "uid-file"
  /\ Has(calls, "Update") /\ result = "ok"
  /\ workload.rv = 1 /\ workload.uid = "uid-1"

\* -------------------------------------------------------------------- C13
\* no flag of the command line sets a source
NoSourceFlag ==
  /\ args.GitRepo = "" /\ args.Image = "" /\ args.LocalPath = ""
  /\ args.MavenFlags = "" /\ args.ParamsYamlMaven = ""

\* C13: under the replace strategy with an existing workload, the submitted
\* labels are exactly those of the file plus the one the --type flag sets, and
\* the annotations, env, subpath, service account and source are those of the
\* file unless a flag sets them: nothing that only the current cluster
\* workload has is submitted.
ReplaceAuthoritative ==
  (Submitted /\ opts.UpdateStrategy = replaceUpdateStrategy /\ workloadExists)
    => /\ \A k \in LabelKeys :
            workload.labels[k] = IF k = "type" /\ args.Type # "" THEN args.Type
                                 ELSE stdinFile.labels[k]
       /\ workload.annotations = stdinFile.annotations
       /\ workload.env = stdinFile.env
       /\ workload.subPath = stdinFile.subPath
       /\ (args.ServiceAccount = NoValue
             => workload.serviceAccountName = stdinFile.serviceAccountName)
       /\ (NoSourceFlag => /\ workload.git = stdinFile.git
                           /\ workload.image = stdinFile.image
                           /\ workload.maven = stdinFile.maven)
       /\ ((stdinFile.lspAnn = "" /\ args.LocalPath = "") => workload.lspAnn = "")

\* labels, annotations and env of the current workload that the file lacks
\* are gone from what the cluster stores
ReplaceAuthoritativeWitness ==
  /\ opts.UpdateStrategy = replaceUpdateStrategy /\ NoSourceFlag /\ args.Type = ""
  /\ currentWorkload.labels["keep"] = "a" /\ currentWorkload.env # <<>>
  /\ stdinFile.image = "imgF"
  /\ Has(calls, "Update") /\ result = "ok"
  /\ cluster[TargetKey].labels["keep"] = "" /\ cluster[TargetKey].env = <<>>
  /\ cluster[TargetKey].image = "imgF"

\* -------------------------------------------------------------------- C14
\* union of two maps, the incoming value winning on a key conflict
Union(current, incoming) ==
  [k \in DOMAIN current |-> IF incoming[k] # "" THEN incoming[k] ELSE current[k]]

\* the labels a merge has to submit: the union, under what --type sets
MergedLabels ==
  [k \in LabelKeys |->
     IF k = "type" /\ args.Type # "" THEN args.Type
     ELSE Union(currentWorkload.labels, stdinFile.labels)[k]]

MergeOfExisting ==
  Submitted /\ opts.UpdateStrategy = mergeUpdateStrategy /\ workloadExists

\* C14 (as stated): under the merge strategy the submitted labels and
\* annotations are the union of the current workload's and the file's, the
\* file's value winning on a key conflict; no key of the current workload is
\* dropped.  The local-source-proxy annotation is one of the annotations.
MergeUnion ==
  MergeOfExisting
    => /\ workload.labels = MergedLabels
       /\ workload.annotations = Union(currentWorkload.annotations, stdinFile.annotations)
       /\ (args.LocalPath = ""
             => workload.lspAnn = IF stdinFile.lspAnn # "" THEN stdinFile.lspAnn
                                  ELSE currentWorkload.lspAnn)
       /\ (currentWorkload.lspAnn # "" => workload.lspAnn # "")

\* C14 (amended): under the merge strategy the submitted labels and
\* annotations are the union of the current workload's and the file's, the
\* file's value winning on a key conflict and the --type flag over both; no
\* key of the current workload is dropped, except the local-source-proxy
\* annotation: it is submitted only with the LSP-published image as source,
\* so it is dropped when the source moves away from LSP and not taken from
\* the file when the source is not LSP; while the source stays the LSP image
\* it is kept.
MergeUnionAmended ==
  MergeOfExisting
    => /\ workload.labels = MergedLabels
       /\ workload.annotations = Union(currentWorkload.annotations, stdinFile.annotations)
       /\ \A k \in LabelKeys : currentWorkload.labels[k] # "" => workload.labels[k] # ""
       /\ \A k \in AnnotationKeys :
            currentWorkload.annotations[k] # "" => workload.annotations[k] # ""
       /\ (workload.lspAnn # "" => workload.image = LSPRef)
       /\ ((currentWorkload.lspAnn # "" /\ workload.image = LSPRef) => workload.lspAnn = LSPRef)

\* a file whose labels and annotations meet those of the current workload
MergeUnionWitness ==
  /\ opts.UpdateStrategy = mergeUpdateStrategy /\ args.Type = ""
  /\ stdinFile.labels["keep"] = "b" /\ currentWorkload.labels["keep"] = "a"
  /\ currentWorkload.annotations["note"] = "n-cur"
  /\ Has(calls, "Update") /\ result = "ok"
  /\ cluster[TargetKey].labels["keep"] = "b" /\ cluster[TargetKey].labels["type"] = "web"
  /\ cluster[TargetKey].annotations["note"] = "n-file"

\* -------------------------------------------------------------------- C15
HasName(env, n) == \E i \in DOMAIN env : env[i].name = n

ValueOf(env, n) == env[CHOOSE i \in DOMAIN env : env[i].name = n].value

\* the entries of incoming whose name env does not have, in incoming order
OnlyIncoming(env, incoming) == SelectSeq(incoming, LAMBDA e : ~HasName(env, e.name))

\* C15: merging the file's env into the current workload's leaves every
\* existing entry at its position, with the incoming value when the file has
\* an entry of that name; the entries only the file has follow, in the file's
\* order; no name occurs twice in the result.
KeyedListMerge ==
  (Submitted /\ opts.UpdateStrategy = mergeUpdateStrategy)
    => LET cur == currentWorkload.env
           inc == stdinFile.env
           res == workload.env
           new == OnlyIncoming(cur, inc)
       IN /\ Len(res) = Len(cur) + Len(new)
          /\ \A i \in DOMAIN cur :
               /\ res[i].name = cur[i].name
               /\ res[i].value = IF HasName(inc, cur[i].name)
                                   THEN ValueOf(inc, cur[i].name) ELSE cur[i].value
          /\ \A j \in DOMAIN new : res[Len(cur) + j] = new[j]
          /\ \A i, j \in DOMAIN res : res[i].name = res[j].name => i = j

\* one entry overwritten in place, one kept, one appended
KeyedListMergeWitness ==
  /\ opts.UpdateStrategy = mergeUpdateStrategy
  /\ currentWorkload.env = <<EnvVar("A", "1"), EnvVar("C", "3")>>
  /\ stdinFile.env = <<EnvVar("B", "2"), EnvVar("A", "9")>>
  /\ Has(calls, "Update") /\ result = "ok"
  /\ cluster[TargetKey].env = <<EnvVar("A", "9"), EnvVar("C", "3"), EnvVar("B", "2")>>

\* -------------------------------------------------------------------- C16
MavenOverwritten == args.MavenFlags # "" /\ args.ParamsYamlMaven # ""

ServiceAccountPresence ==
  (Submitted /\ opts.UpdateStrategy = mergeUpdateStrategy /\ workloadExists
     /\ args.ServiceAccount = NoValue)
    => /\ (args.FilePath = ""
             => workload.serviceAccountName = currentWorkload.serviceAccountName)
       /\ ((args.FilePath # "" /\ stdinFile.serviceAccountName = NoValue)
             => workload.serviceAccountName = currentWorkload.serviceAccountName)
       /\ ((args.FilePath # "" /\ stdinFile.serviceAccountName = "")
             => workload.serviceAccountName = NoValue)

\* -------------------------------------------------------------------- C18
AllKinds == <<"MavenFlagWildcard", "LocalPathAndSource", "ImageFlagName", "GitFlagWildcard">>

\* the kinds of source the command line names
KindGiven(k) ==
  \/ (k = "MavenFlagWildcard" /\ args.MavenFlags # "")
  \/ (k = "LocalPathAndSource" /\ args.LocalPath # "")
  \/ (k = "ImageFlagName" /\ args.Image # "")
  \/ (k = "GitFlagWildcard" /\ args.GitRepo # "")

KindsGiven == SelectSeq(AllKinds, KindGiven)

MultipleSourcesError(kinds) ==
  "[" \o Join(kinds, ", ") \o "]: Required value: expected exactly one, got multiple"

MultipleSourcesErrors ==
  {MultipleSourcesError(SelectSeq(AllKinds, LAMBDA k : k \in S)) :
     S \in SUBSET {AllKinds[i] : i \in DOMAIN AllKinds}}

SourcesOf(w) ==
  (IF w.git # "" THEN 1 ELSE 0) + (IF w.image # "" THEN 1 ELSE 0)
  + (IF w.maven # "" THEN 1 ELSE 0)

FetchErrorHandling ==
  LET key == KeyOf(opts.Namespace, opts.Name) IN
  /\ (result = "GetError" /\ Len(calls) = 1) => (pc = "done" /\ calls = <<"Get">>)
  /\ (pc = "reconcile" /\ ~GetNotFound)
       => (calls = <<"Get">> /\ ~cluster[key].nil /\ currentWorkload = cluster[key])
  /\ (GetNotFound /\ Writes(calls) = 0) => (cluster[key].nil /\ currentWorkload.nil)
  /\ (GetNotFound /\ opts.Namespace \notin namespaces)
       => (pc = "done" /\ result = "NamespaceNotFound")
  /\ result = "NamespaceNotFound"
       => (calls = <<"Get", "GetNamespace">> /\ opts.Namespace \notin namespaces)
  /\ (result = "NamespaceNotFound" \/ (result = "GetError" /\ Len(calls) = 1))
       => (Writes(calls) = 0 /\ ~okToApply /\ out \in {<<>>, <<"StrategyNotice">>})

\* the Get of an existing workload fails
FetchErrorHandlingWitness ==
  /\ result = "GetError" /\ calls = <<"Get">> /\ pc = "done"
  /\ ~cluster[KeyOf(opts.Namespace, opts.Name)].nil

\* -------------------------------------------------------------------- C20
\* C20: when neither the positional argument nor the file supplies a name, or
\* no namespace is available, a loaded input ends the command with a
\* MissingField error that names each missing item and no other, and no
\* cluster call has been issued; a MissingField error is never returned
\* otherwise.
IdentityMissing == FinalName = "" \/ FinalNamespace = ""

InputLoaded == pc # "start" /\ result # "LoadInputError"

ExpectedMissingField ==
  "MissingField("
    \o (IF FinalName = "" THEN "name" ELSE "")
    \o (IF FinalName = "" /\ FinalNamespace = "" THEN "," ELSE "")
    \o (IF FinalNamespace = "" THEN "namespace" ELSE "")
    \o ")"

MissingIdentity ==
  /\ (InputLoaded /\ IdentityMissing)
       => /\ pc = "done"
          /\ result = ExpectedMissingField
          /\ calls = <<>>
  /\ result \in {"MissingField(name)", "MissingField(namespace)",
                 "MissingField(name,namespace)"}
       => (IdentityMissing /\ result = ExpectedMissingField /\ calls = <<>>)

\* a file without a name is applied without the positional argument
MissingIdentityWitness ==
  /\ pc = "done" /\ result = "MissingField(name)" /\ calls = <<>>
  /\ opts.FilePath # "" /\ args.Name = "" /\ stdinFile.name = ""

\* no namespace is available
MissingIdentityNamespaceWitness ==
  /\ pc = "done" /\ calls = <<>>
  /\ result \in {"MissingField(namespace)", "MissingField(name,namespace)"}

\* -------------------------------------------------------------------- C21
\* C21: once a file is loaded, the name is the file's only when the
\* positional NAME is absent, and the namespace is the file's only when the
\* file has one and --namespace was not set on the command line; in every
\* other case, and without a file, the command-line values are kept.
FileLoaded == args.FilePath # "" /\ InputLoaded

IdentityFromFile ==
  /\ FileLoaded
       => /\ (pc = "get" => fileWorkload = stdinFile)
          /\ (args.Name = "" => opts.Name = stdinFile.name)
          /\ (args.Name # "" => opts.Name = args.Name)
          /\ ((stdinFile.namespace # "" /\ ~args.NamespaceChanged)
                => opts.Namespace = stdinFile.namespace)
          /\ ((stdinFile.namespace = "" \/ args.NamespaceChanged)
                => opts.Namespace = args.Namespace)
  /\ args.FilePath = "" => (opts.Name = args.Name /\ opts.Namespace = args.Namespace)

\* a file in another namespace is applied with --namespace and a NAME
IdentityFromFileWitness ==
  /\ FileLoaded /\ pc = "get"
  /\ args.NamespaceChanged /\ args.Name # ""
  /\ stdinFile.namespace \notin {"", args.Namespace}
  /\ stdinFile.name \notin {"", args.Name}

\* -------------------------------------------------------------------- C22
\* C22 as stated: a workload read from stdin is accepted only with --yes;
\* without --yes the command fails and submits nothing.
OnStdin == args.FilePath = StdinSentinel

Validated == pc # "validate"

StdinRequiresYes ==
  (OnStdin /\ ~args.Yes /\ Validated)
    => (pc = "done" /\ result # "ok" /\ calls = <<>>)

\* C22 as the command behaves: a workload read from stdin is accepted only
\* with --yes or --dry-run; with neither, validation fails (on the missing
\* --yes alone when the options have no other fault), Exec does not run and
\* nothing is read, printed or submitted; with either, the document on stdin
\* is the file workload, and only --yes without --dry-run submits it.
OtherwiseValid ==
  /\ Len(SourceKinds(args)) <= 1
  /\ (args.UpdateStrategyChanged
        => args.UpdateStrategy \in {"", mergeUpdateStrategy, replaceUpdateStrategy})

StdinRequiresYesOrDryRun ==
  /\ (OnStdin /\ ~args.Yes /\ ~args.DryRun /\ Validated)
       => /\ pc = "done" /\ result \notin {"", "ok"}
          /\ (OtherwiseValid => result = ErrMissingField("--yes"))
          /\ calls = <<>> /\ out = <<>> /\ fileWorkload = EmptyWorkload
  /\ (OnStdin /\ (args.Yes \/ args.DryRun) /\ OtherwiseValid /\ Validated)
       => result # ErrMissingField("--yes")
  /\ (OnStdin /\ pc = "get") => fileWorkload = stdinFile
  /\ (OnStdin /\ Writes(calls) > 0) => (args.Yes /\ ~args.DryRun)

\* a document on stdin without --yes and without --dry-run is refused
StdinRequiresYesOrDryRunWitness ==
  /\ OnStdin /\ ~args.Yes /\ ~args.DryRun /\ OtherwiseValid
  /\ pc = "done" /\ result = ErrMissingField("--yes")

\* a document on stdin is printed by --dry-run without --yes
StdinDryRunAccepted ==
  /\ OnStdin /\ ~args.Yes /\ args.DryRun
  /\ pc = "done" /\ result = "ok" /\ Last(out) = "DryRunResource"

\* -------------------------------------------------------------------- C28
\* C28: when --update-strategy is set on the command line, validation fails
\* with the missing --file if no file path is given and with the enum error
\* if the value is not merge or replace; when the flag is not set on the
\* command line neither check is applied.  Stated for options that have no
\* other fault, so that the errors of the update strategy are the whole result.
StrategyValues == <<mergeUpdateStrategy, replaceUpdateStrategy>>

ExpectedStrategyErrors ==
  IF args.UpdateStrategyChanged
    THEN (IF args.FilePath = "" THEN <<ErrMissingField("--file")>> ELSE <<>>)
         \o (IF args.UpdateStrategy \notin {mergeUpdateStrategy, replaceUpdateStrategy}
               THEN <<EnumInvalidValue(args.UpdateStrategy, "--update-strategy",
                                       StrategyValues)>>
               ELSE <<>>)
    ELSE <<>>

StrategyErrorTexts ==
  LET file == ErrMissingField("--file")
      enum(v) == EnumInvalidValue(v, "--update-strategy", StrategyValues)
  IN {file} \cup {enum(v) : v \in {"", "invalid"}}
            \cup {Aggregate(<<file, enum(v)>>) : v \in {"", "invalid"}}

NoOtherFault ==
  /\ Len(SourceKinds(args)) <= 1
  /\ ~(OnStdin /\ ~args.Yes /\ ~args.DryRun)

UpdateStrategyValidation ==
  (Validated /\ NoOtherFault)
    => IF ExpectedStrategyErrors = <<>>
         THEN result \notin StrategyErrorTexts
         ELSE pc = "done" /\ result = Aggregate(ExpectedStrategyErrors) /\ calls = <<>>

\* -------------------------------------------------------------------- C23
\* C23: a Ready condition that is False ends the readiness phase: its error
\* `Failed to become ready: <condition.message>` is reported right after the
\* prefix `Error waiting for ready condition:`, only once the workload was
\* applied and a wait was asked for, the wait is over, and
\* `Workload "NAME" is ready` is not printed; the command returns that
\* error only when it reported it.
Follows(seq, a, b) == \E i \in 1..(Len(seq) - 1) : seq[i] = a /\ seq[i + 1] = b

ReadyFalseTerminal ==
  LET failed == FailedToBecomeReady(ConditionMessage) IN
  /\ Has(out, failed)
       => /\ Follows(out, waitErrorForReadyCondition, failed)
          /\ Count(out, failed) = 1
          /\ ~Has(out, "Ready")
          /\ pc \in {"output", "done"}
          /\ okToApply /\ (opts.Wait \/ anyTail(opts))
          /\ (opts.Output = "" => (pc = "done" /\ result = "FailedToBecomeReady"))
  /\ result = "FailedToBecomeReady" => (Last(out) = failed /\ opts.Output = "")

\* the readiness phase of a create ends on Ready=False
ReadyFalseTerminalWitness ==
  /\ pc = "done" /\ result = "FailedToBecomeReady" /\ ~workloadExists
  /\ Last(out) = FailedToBecomeReady(ConditionMessage)

\* -------------------------------------------------------------------- C24
\* C24: a timeout is reported as `timeout after <duration> waiting for
\* "<name>" to become ready`, right after the prefix of the phase it fired in:
\* `Error waiting for status change:` in the status-change phase, which only
\* an update has, and `Error waiting for ready condition:` in the readiness
\* phase; on a create a timeout is always attributed to the readiness phase.
TimeoutTexts == {TimeoutError(d, workload.name) : d \in {"1ns", "30s"}}

TimedOut(prefix) == \E t \in TimeoutTexts : Follows(out, prefix, t)

TimeoutAttribution ==
  /\ \A i \in DOMAIN out :
        (\E d \in {"1ns", "30s"}, n \in {"", "w1", "fw"} : out[i] = TimeoutError(d, n))
          => /\ out[i] \in TimeoutTexts
             /\ workload.name = FinalName
             /\ i > 1
             /\ out[i - 1] \in {waitErrorForStatusChange, waitErrorForReadyCondition}
  /\ TimedOut(waitErrorForStatusChange)
       => (workloadExists /\ statusRace = "error" /\ pc # "statusRace")
  /\ TimedOut(waitErrorForReadyCondition)
       => (pc \in {"output", "done"} /\ Follows(out, waitErrorForReadyCondition,
                                                 TimeoutError(WaitTimeout, workload.name)))
  /\ result = "StatusChangeTimeout"
       => (TimedOut(waitErrorForStatusChange) /\ ~Has(out, waitErrorForReadyCondition))
  /\ result = "ReadyTimeout"
       => (TimedOut(waitErrorForReadyCondition) /\ Last(out) \in TimeoutTexts)
  /\ ~workloadExists => ~Has(out, waitErrorForStatusChange)

\* the status-change phase of an update times out
TimeoutAttributionWitness ==
  /\ pc = "done" /\ result = "StatusChangeTimeout" /\ workloadExists
  /\ TimedOut(waitErrorForStatusChange)

\* the readiness phase of a create times out
TimeoutAttributionCreateWitness ==
  /\ pc = "done" /\ result = "ReadyTimeout" /\ ~workloadExists
  /\ TimedOut(waitErrorForReadyCondition)

\* -------------------------------------------------------------------- C25
\* C25: the prompt accepts exactly y, yes, n and no in any case; every other
\* line, the empty one included, prints the invalid-input message followed by
\* the same prompt; a line that is accepted ends the prompt; as long as only
\* invalid lines were given the command stays at the prompt and neither a
\* Create nor an Update is issued nor the workload skipped; a write that was
\* asked about follows a yes, a skip follows a no.
AcceptedYes == {"Answer(y)", "Answer(Y)", "Answer(yes)", "Answer(Yes)", "Answer(YES)"}

AcceptedNo == {"Answer(n)", "Answer(N)", "Answer(no)", "Answer(No)", "Answer(nO)"}

IsAnswer(c) == c \notin {"Get", "GetNamespace", "Create", "Update"}

IsInvalidAnswer(c) ==
  IsAnswer(c) /\ c \notin AcceptedYes \cup AcceptedNo \cup {"Answer(EOF)"}

AnswersGiven == SelectSeq(calls, IsAnswer)

InvalidGiven == SelectSeq(calls, IsInvalidAnswer)

ConsentInputLoop ==
  /\ Has(out, "Prompt")
       => /\ Count(out, "Prompt") = Len(InvalidGiven) + 1
          /\ Count(out, "InvalidInput") = Len(InvalidGiven)
  /\ \A i \in DOMAIN out :
        out[i] = "InvalidInput" => (i < Len(out) /\ out[i + 1] = "Prompt")
  /\ \A i \in 1..(Len(AnswersGiven) - 1) : IsInvalidAnswer(AnswersGiven[i])
  /\ (AnswersGiven # <<>> /\ Len(InvalidGiven) = Len(AnswersGiven))
       => (pc = "prompt" /\ Writes(calls) = 0 /\ ~Has(out, "Skipping"))
  /\ (AnswersGiven # <<>> /\ Last(AnswersGiven) \in AcceptedYes)
       => pc \in {"call", "done"}
  /\ (AnswersGiven # <<>> /\ Last(AnswersGiven) \in AcceptedNo)
       => (pc = "done" /\ Last(out) = "Skipping" /\ Writes(calls) = 0)
  /\ (Has(out, "Prompt") /\ Writes(calls) > 0) => Last(AnswersGiven) \in AcceptedYes
  /\ (Has(out, "Prompt") /\ Has(out, "Skipping")) => Last(AnswersGiven) \in AcceptedNo

\* an empty line, then YES, then the write
ConsentInputLoopWitness ==
  /\ AnswersGiven = <<"Answer()", "Answer(YES)">>
  /\ Count(out, "Prompt") = 2 /\ Writes(calls) = 1

\* -------------------------------------------------------------------- C26
\* C26 as stated: when `apply --local-path` has succeeded and the same command
\* line is run again over the same directory, the stored workload has the
\* published reference as its image and as its annotation, the second run,
\* whatever envelope its publish returns (200 or 204), arrives at the same
\* image and annotation, finds no difference, prints that the workload is
\* unchanged and issues no Create and no Update.
Published == Has(calls, "LSPPublish(200)") \/ Has(calls, "LSPPublish(204)")

SameReference ==
  LET stored == cluster[TargetKey] IN
  /\ ~stored.nil /\ stored.image = LSPRef /\ stored.lspAnn = LSPRef
  /\ (Published /\ pc \in {"submit", "call", "done"})
       => (workload.image = LSPRef /\ workload.lspAnn = LSPRef)

NoSecondWrite ==
  LET stored == cluster[TargetKey] IN
  /\ Writes(calls) = 0
  /\ (Published /\ pc \in {"submit", "done"}) => NoChange(stored, workload)
  /\ (Published /\ pc = "done")
       => (result = "ok" /\ Last(out) = "Unchanged" /\ ~okToApply)

TypeDefaulted ==
  /\ args.UpdateStrategy = replaceUpdateStrategy
  /\ args.Type = "" /\ stdinFile.labels["type"] = ""
  /\ \/ cluster[TargetKey].labels["type"] # ""
     \/ Writes(calls) > 0

LSPIdempotenceTypeRemoved ==
  /\ run = 2 /\ pc = "done" /\ result = "ok" /\ TypeDefaulted
  /\ calls[Len(calls)] = "Update"
  /\ cluster[TargetKey].labels["type"] = ""

\* -------------------------------------------------------------------- C27
SubpathWithoutSource(w) == w.subPath # "" /\ w.image = "" /\ w.git = ""

PastValidation ==
  pc \in {"validated", "publish", "submit", "prompt", "call", "statusRace",
          "readyRace", "output"}

\* C27: a proposed workload that has a subpath but no source (git, image
\* source or local source proxy image) fails validation with an error and
\* nothing is submitted: the command ends right there with no Create or
\* Update, no publish and no diff; every workload that passes validation, and
\* every workload submitted, has a source whenever it has a subpath.
SubpathRequiresSource ==
  /\ result = "ValidationError"
       => /\ pc = "done" /\ SubpathWithoutSource(workload)
          /\ Writes(calls) = 0 /\ ~Published
          /\ ~Has(out, "Diff") /\ ~Has(out, "Created") /\ ~Has(out, "Updated")
  /\ PastValidation => ~SubpathWithoutSource(workload)
  /\ Writes(calls) > 0 => ~SubpathWithoutSource(workload)

\* the file brings a subpath, no flag and no stored workload brings a source
SubpathRequiresSourceWitness ==
  /\ pc = "done" /\ result = "ValidationError"
  /\ fileWorkload.subPath = "sub" /\ workload.subPath = "sub"
  /\ opts.GitRepo = "" /\ opts.Image = "" /\ opts.LocalPath = ""

\* a local path counts as a source: the subpath is kept next to the published image
SubpathWithLocalPath ==
  /\ pc = "done" /\ result = "ok" /\ Has(calls, "Create")
  /\ workload.subPath = "sub" /\ workload.image = LSPRef

\* -------------------------------------------------------------------- C29
Before(seq, a, b) ==
  \A i, j \in DOMAIN seq : (seq[i] = a /\ seq[j] = b) => i < j

ConsentBeforeWrite ==
  \E i, j \in DOMAIN calls :
    /\ i < j
    /\ calls[i] \in {"Answer(y)", "Answer(yes)"}
    /\ calls[j] \in {"Create", "Update"}

InWait == pc \in {"readyRace", "statusRace"}

\* C29: with --output and without --yes the diff and the consent prompt precede
\* the submission; after a successful apply the serialized resource is the last
\* thing printed, it is printed once, after the Create/Update, after any wait
\* and right after a Get, and it is the workload as the cluster holds it.
OutputOrdering ==
  /\ (opts.Output # "" /\ ~opts.Yes)
       => /\ Writes(calls) > 0
               => /\ Follows(out, "Diff", "Prompt")
                  /\ ConsentBeforeWrite
                  /\ Before(out, "Diff", "Applied") /\ Before(out, "Prompt", "Applied")
          /\ pc = "prompt" => (Writes(calls) = 0 /\ Last(out) = "Prompt")
  /\ Has(out, "Serialized")
       => /\ pc = "done" /\ result = "ok" /\ opts.Output # "" /\ okToApply
          /\ Last(out) = "Serialized" /\ Count(out, "Serialized") = 1
          /\ Writes(calls) = 1 /\ Last(calls) = "Get"
          /\ Before(out, "Applied", "Serialized") /\ Before(out, "Waiting", "Serialized")
          /\ workload = cluster[KeyOf(opts.Namespace, opts.Name)]
  /\ (InWait \/ pc = "output") => ~Has(out, "Serialized")

\* an update confirmed at the prompt, waited for, then printed from the cluster
OutputOrderingWitness ==
  /\ pc = "done" /\ result = "ok" /\ opts.Output = "yaml" /\ ~opts.Yes /\ opts.Wait
  /\ Has(calls, "Update") /\ Has(out, "Prompt") /\ Has(out, "Waiting")
  /\ Last(out) = "Serialized"
  /\ workload = cluster[KeyOf(opts.Namespace, opts.Name)]

\* ================================================== the `tree` command
\* WorkloadTreeOptions as the flags and the argument fill it
TreeNames == {"", "w1", "fw", "my-"}
TreeSinces == {"-1ns", "1s"}
TreeComponents == {"", "build", "---"}

TreeOptionSets ==
  [Namespace : {"", "default", "ns2"}, Name : TreeNames, AllNamespaces : BOOLEAN,
   Component : TreeComponents, Since : TreeSinces]

ErrInvalidValue(value, field) == field \o ": Invalid value: " \o value

\* validation.K8sName on the names above
K8sName(name, field) ==
  IF name \in {"w1", "fw"} THEN <<>> ELSE <<ErrInvalidValue(name, field)>>

\* validation.K8sLabelValue on the components above
K8sLabelValue(value, field) ==
  IF value \in {"", "build"} THEN <<>> ELSE <<ErrInvalidValue(value, field)>>

Negative(since) == since = "-1ns"

WorkloadTreeOptionsValidate(o) ==
  (IF o.Namespace = "" THEN <<ErrMissingField("--namespace")>> ELSE <<>>)
  \o (IF o.Name = "" THEN <<ErrMissingField("<name>")>> ELSE K8sName(o.Name, "<name>"))
  \o (IF Negative(o.Since) THEN <<ErrInvalidValue(o.Since, "--since")>> ELSE <<>>)
  \o K8sLabelValue(o.Component, "--component")

TreeInit ==
  /\ args \in TreeOptionSets
  /\ opts = args
  /\ cluster \in InitialClusters
  /\ namespaces = {"default", "ns2"}
  /\ stdinFile = EmptyWorkload
  /\ fileWorkload = EmptyWorkload
  /\ workload = EmptyWorkload
  /\ currentWorkload = NilWorkload
  /\ okToApply = FALSE
  /\ pc = "treeValidate"
  /\ calls = <<>>
  /\ out = <<>>
  /\ result = ""
  /\ invalidAnswers = 0
  /\ events = 0
  /\ sawNewer = FALSE
  /\ statusRace = ""
  /\ race = NoRace
  /\ run = 1

TreeUnchanged ==
  /\ UNCHANGED <<run, args, opts, cluster, namespaces, stdinFile, fileWorkload,
                 currentWorkload, okToApply>>
  /\ WaitVarsUnchanged

\* PreRunE: cli.ValidateE(ctx, opts)
TreeValidate ==
  /\ pc = "treeValidate"
  /\ IF WorkloadTreeOptionsValidate(opts) # <<>>
       THEN Return(Aggregate(WorkloadTreeOptionsValidate(opts)))
       ELSE pc' = "treeGet" /\ result' = result
  /\ UNCHANGED <<workload, calls, out>>
  /\ TreeUnchanged

NotFound == "NotFound"

\* errors of the workload Get other than NotFound
TreeGetErrors == {"Forbidden", "InternalError"}

SilenceError(err) == "Silenced" \o err

NotFoundMessage(ns, name) == "Workload \"" \o ns \o "/" \o name \o "\" not found"

\* lines 59-68; notFoundReturns is the `return cli.SilenceError(err)` of line 67
TreeGetStep(notFoundReturns) ==
  /\ pc = "treeGet"
  /\ LET key == KeyOf(opts.Namespace, opts.Name) IN
     \E r \in {"ok"} \cup TreeGetErrors :
       /\ calls' = Append(calls, "Get")
       /\ IF r \in TreeGetErrors
            THEN Return(r) /\ UNCHANGED <<workload, out>>
          ELSE IF key \notin Keys \/ cluster[key].nil
            THEN /\ out' = Append(out, NotFoundMessage(opts.Namespace, opts.Name))
                 /\ workload' = workload
                 /\ IF notFoundReturns
                      THEN Return(SilenceError(NotFound))
                      ELSE pc' = "treeApis" /\ result' = result
            ELSE /\ workload' = cluster[key]
                 /\ out' = out
                 /\ pc' = "treeApis" /\ result' = result
  /\ TreeUnchanged

TreeGetContinuing == TreeGetStep(FALSE)

TreeGet == TreeGetStep(TRUE)

\* lines 70-80: the dynamic client and tree.FindAPIs
TreeFindAPIs ==
  /\ pc = "treeApis"
  /\ \E r \in {"ok", "ClientError", "DiscoveryError"} :
       IF r = "ClientError"
         THEN /\ Return("failed to construct dynamic client: " \o r)
              /\ calls' = calls
       ELSE /\ calls' = Append(calls, "FindAPIs")
            /\ IF r = "ok" THEN pc' = "treeObject" /\ result' = result
                           ELSE Return(r)
  /\ UNCHANGED <<workload, out>>
  /\ TreeUnchanged

\* lines 82-119: the kind lookup and the dynamic Get of the workload
TreeGetObject ==
  /\ pc = "treeObject"
  /\ \E found \in {"override", "none", "one", "many"}, r \in {"ok", "Forbidden"} :
       IF found = "none"
         THEN Return("could not find api kind \"workloads\"") /\ calls' = calls
       ELSE IF found = "many"
         THEN Return("ambiguous kind \"workloads\"") /\ calls' = calls
       ELSE /\ calls' = Append(calls, "DynamicGet")
            /\ IF r = "ok"
                 THEN pc' = "treeResources" /\ result' = result
                 ELSE Return("failed to get workloads/" \o opts.Name \o ": " \o r)
  /\ UNCHANGED <<workload, out>>
  /\ TreeUnchanged

\* lines 120-133: every resource is listed and the owned ones are drawn
TreeView ==
  /\ pc = "treeResources"
  /\ \E r \in {"owned", "none", "ListError"} :
       /\ calls' = Append(calls, IF opts.AllNamespaces THEN "GetAllResources(all)"
                                                       ELSE "GetAllResources")
       /\ IF r = "ListError"
            THEN Return("error while querying api objects: " \o r) /\ out' = out
            ELSE /\ Return("ok")
                 /\ out' = Append(out, IF r = "none" THEN "NoOwnedResources" ELSE "Tree")
  /\ UNCHANGED workload
  /\ TreeUnchanged

TreeNext == TreeValidate \/ TreeGet \/ TreeFindAPIs \/ TreeGetObject \/ TreeView

TreeSpec == TreeInit /\ [][TreeNext]_vars

\* -------------------------------------------------------------------- C30
TreeMissing ==
  LET key == KeyOf(opts.Namespace, opts.Name) IN key \notin Keys \/ cluster[key].nil

\* C30: when the workload Get of `tree` returns NotFound, the command prints
\* `Workload "<namespace>/<name>" not found` and ends with an error, having
\* issued that Get and nothing else: no discovery, no other resource; any
\* other error of the Get is returned as it is, with nothing printed.
TreeNotFound ==
  /\ (Has(calls, "Get") /\ TreeMissing)
       => /\ pc = "done" /\ calls = <<"Get">>
          /\ \/ /\ result = SilenceError(NotFound)
                /\ out = <<NotFoundMessage(opts.Namespace, opts.Name)>>
             \/ result \in TreeGetErrors /\ out = <<>>
  /\ result = SilenceError(NotFound) => TreeMissing
  /\ result \in TreeGetErrors => (pc = "done" /\ calls = <<"Get">> /\ out = <<>>)
  /\ pc = "done" => result # ""

\* a workload looked for in another namespace than the one it lives in
TreeNotFoundWitness ==
  /\ pc = "done" /\ result = SilenceError(NotFound)
  /\ opts.Namespace = "ns2" /\ opts.Name = "w1"
  /\ ~cluster[TargetKey].nil
  /\ out = <<"Workload \"ns2/w1\" not found">>

\* the Get fails with something else
TreeGetErrorWitness ==
  /\ pc = "done" /\ result = "Forbidden" /\ calls = <<"Get">> /\ ~TreeMissing

\* ===================================== the wait phase, worker by worker
\* apply w1 --yes with the flags that decide about the wait
WaitOptionSets ==
  [Name : {"w1"}, Namespace : {"default"}, NamespaceChanged : {FALSE},
   FilePath : {""}, UpdateStrategy : {mergeUpdateStrategy},
   UpdateStrategyChanged : {FALSE},
   Yes : {TRUE}, DryRun : {FALSE}, Output : {"", "yaml"},
   Wait : BOOLEAN, Tail : BOOLEAN, TailTimestamps : BOOLEAN,
   LocalPath : {""}, Type : {"", "api"},
   GitRepo : {""}, Image : {""}, MavenFlags : {""}, ParamsYamlMaven : {""},
   ServiceAccount : {NoValue}]

WaitInit ==
  /\ args \in WaitOptionSets
  /\ opts = args
  /\ cluster \in InitialClusters
  /\ namespaces = {"default", "ns2"}
  /\ stdinFile = EmptyWorkload
  /\ fileWorkload = EmptyWorkload
  /\ workload = EmptyWorkload
  /\ currentWorkload = NilWorkload
  /\ okToApply = FALSE
  /\ pc = "start"
  /\ calls = <<>>
  /\ out = <<>>
  /\ result = ""
  /\ invalidAnswers = 0
  /\ events = 0
  /\ sawNewer = FALSE
  /\ statusRace = ""
  /\ run = 1
  /\ race = NoRace

RaceUnchanged ==
  UNCHANGED <<run, args, opts, cluster, namespaces, stdinFile, fileWorkload,
              currentWorkload, okToApply, calls, invalidAnswers>>

RaceWorkersWithTail(phase, o) ==
  IF phase = "statusChange" THEN {"statusChange"} ELSE {"ready", "tail"}

\* the worker lists of line 575 and of lines 590-594
RaceWorkers(phase, o) ==
  IF phase = "statusChange" THEN {"statusChange"}
  ELSE {"ready"} \cup (IF anyTail(o) THEN {"tail"} ELSE {})

\* raceWithTimeout starts its workers next to the timeout worker; each of the
\* workers given holds a watch or a log stream while it runs
StartRace(phase, workers, timeout) ==
  race' = [phase |-> phase,
           state |-> [w \in Workers |->
                        IF w \in workers \cup {"timeout"} THEN "running" ELSE "idle"],
           streams |-> workers, cancel |-> FALSE, verdict |-> "",
           timeout |-> timeout, event |-> NoRace.event]

\* lines 574-585, up to the call of raceWithTimeout
StartStatusChangeStep(workers) ==
  /\ pc = "statusRace"
  /\ race.phase = "none"
  /\ \E stashedTimeout \in StashedTimeouts :
       StartRace("statusChange", workers, StatusChangeTimeout(stashedTimeout))
  /\ UNCHANGED <<workload, pc, out, result, events, sawNewer, statusRace>>
  /\ RaceUnchanged

StartStatusChangeRaceWithReady ==
  StartStatusChangeStep(RaceWorkers("statusChange", opts) \cup RaceWorkers("ready", opts))

StartStatusChangeRace == StartStatusChangeStep(RaceWorkers("statusChange", opts))

\* lines 590-596, up to the call of raceWithTimeout
StartReadyRace ==
  /\ pc = "readyRace"
  /\ race.phase = "none"
  /\ StartRace("ready", RaceWorkers("ready", opts), WaitTimeout)
  /\ UNCHANGED <<workload, pc, out, result, events, sawNewer, statusRace>>
  /\ RaceUnchanged

\* a worker ends with a result: its stream is released, its peers are
\* cancelled and the first result is the one the race returns
Terminated(w, res) ==
  [race EXCEPT !.state[w] = IF res = "nil" THEN "done" ELSE "error",
               !.streams = @ \ {w},
               !.cancel = TRUE,
               !.verdict = IF @ = "" THEN res ELSE @]

Terminate(w, res) == race' = Terminated(w, res)

\* the verdict of a watching worker on an event: "" is to go on watching
Verdict(w, previous, e) ==
  IF w = "statusChange"
    THEN (IF StatusChanged(previous, e) THEN "nil" ELSE "")
  ELSE IF e.readyStatus = "True" THEN "nil"
  ELSE IF e.readyStatus = "False" THEN FailedToBecomeReady(ConditionMessage)
  ELSE ""

\* the watch delivers an event to a watching worker; stores tells whether the
\* worker copies the event's condition into the workload it was given
WorkerEventStep(stores) ==
  /\ race.phase # "none"
  /\ events < MaxEvents
  /\ \E w \in {"statusChange", "ready"}, e \in WatchEvents :
       /\ race.state[w] = "running"
       /\ sawNewer' = (sawNewer \/ Newer(currentWorkload, e))
       /\ workload' = IF stores
                        THEN [workload EXCEPT !.readyStatus = e.readyStatus, !.ltt = e.ltt]
                        ELSE workload
       /\ IF Verdict(w, currentWorkload, e) # ""
            THEN /\ race' = [Terminated(w, Verdict(w, currentWorkload, e))
                                EXCEPT !.event = e]
                 /\ events' = events
            ELSE race' = race /\ events' = events + 1
  /\ UNCHANGED <<pc, out, result, statusRace>>
  /\ RaceUnchanged

WorkerEventStoring == WorkerEventStep(TRUE)

WorkerEvent == WorkerEventStep(FALSE)

\* the error a worker ends with when it fails
WorkerError(w) ==
  IF w = "timeout" THEN TimeoutError(race.timeout, workload.name)
  ELSE IF w = "tail" THEN "TailError"
  ELSE "WatcherError"

\* a watch or the log stream breaks, or the timeout fires
WorkerFails ==
  /\ race.phase # "none"
  /\ \E w \in Workers :
       /\ race.state[w] = "running"
       /\ Terminate(w, WorkerError(w))
  /\ UNCHANGED <<workload, pc, out, result, events, sawNewer, statusRace>>
  /\ RaceUnchanged

\* the tail worker writes a log line
TailLine ==
  /\ race.state["tail"] = "running"
  /\ Count(out, "TailLine") < MaxLines
  /\ out' = Append(out, "TailLine")
  /\ UNCHANGED <<race, workload, pc, result, events, sawNewer, statusRace>>
  /\ RaceUnchanged

\* an OS interrupt closes the cancellation signal; cancellation is no error
Interrupt ==
  /\ race.phase # "none"
  /\ ~race.cancel
  /\ race' = [race EXCEPT !.cancel = TRUE, !.verdict = "nil"]
  /\ UNCHANGED <<workload, pc, out, result, events, sawNewer, statusRace>>
  /\ RaceUnchanged

\* a running worker sees the cancellation signal and stops; releases tells
\* whether it closes its stream, reports whether it hands in an error
ObserveCancelStep(releases, reports) ==
  /\ race.cancel
  /\ \E w \in Workers :
       /\ race.state[w] = "running"
       /\ race' = [race EXCEPT !.state[w] = "cancelled",
                               !.streams = IF releases THEN @ \ {w} ELSE @,
                               !.verdict = IF reports THEN "context canceled" ELSE @]
  /\ UNCHANGED <<workload, pc, out, result, events, sawNewer, statusRace>>
  /\ RaceUnchanged

ObserveCancelKeepingStream == ObserveCancelStep(FALSE, FALSE)

ObserveCancelReporting == ObserveCancelStep(TRUE, TRUE)

ObserveCancel == ObserveCancelStep(TRUE, FALSE)

\* raceWithTimeout has a result and every worker has stopped
RaceOver(phase) ==
  /\ race.phase = phase
  /\ race.verdict # ""
  /\ \A w \in Workers : race.state[w] # "running"

\* lines 585-588: raceWithTimeout returns from the status-change race
StatusChangeRaceReturn ==
  /\ pc = "statusRace"
  /\ RaceOver("statusChange")
  /\ race' = NoRace
  /\ events' = 0
  /\ IF race.verdict = "nil"
       THEN /\ statusRace' = "done"
            /\ out' = out
            /\ pc' = "readyRace" /\ result' = result
       ELSE /\ statusRace' = "error"
            /\ out' = out \o <<waitErrorForStatusChange, race.verdict>>
            /\ IF WaitErrorReturns(opts)
                 THEN Return(SilenceError(race.verdict))
                 ELSE pc' = "readyRace" /\ result' = result
  /\ UNCHANGED <<workload, sawNewer>>
  /\ RaceUnchanged

\* lines 596-605: raceWithTimeout returns from the readiness race
ReadyRaceReturn ==
  /\ pc = "readyRace"
  /\ RaceOver("ready")
  /\ race' = NoRace
  /\ events' = 0
  /\ IF race.verdict = "nil"
       THEN /\ out' = out \o PrintPrompt(opts, "Ready")
            /\ Goto(AfterWait(opts))
       ELSE /\ out' = out \o <<waitErrorForReadyCondition, race.verdict>>
            /\ IF WaitErrorReturns(opts)
                 THEN Return(SilenceError(race.verdict))
                 ELSE Goto(AfterWait(opts))
  /\ UNCHANGED <<workload, sawNewer, statusRace>>
  /\ RaceUnchanged

WaitNext ==
  \/ LoadInput
  \/ GetWorkload
  \/ Reconcile
  \/ CheckLSPHealth
  \/ PublishLocalSource
  \/ BeginSubmit
  \/ Submit
  \/ DirectSubmit
  \/ StartStatusChangeRace
  \/ StartReadyRace
  \/ WorkerEvent
  \/ WorkerFails
  \/ TailLine
  \/ Interrupt
  \/ ObserveCancel
  \/ StatusChangeRaceReturn
  \/ ReadyRaceReturn
  \/ OutputWorkload

WaitSpec == WaitInit /\ [][WaitNext]_vars

\* -------------------------------------------------------------------- C31
Started(w) == race.state[w] # "idle"

\* C31: on an update with waiting enabled the readiness worker and the tail
\* worker are started only after the status-change race has ended (completed,
\* failed or timed out); the two races never run at the same time, and on a
\* create the status-change race is not run at all.
WaitPhaseOrdering ==
  /\ (Started("ready") \/ Started("tail"))
       => /\ race.phase = "ready" /\ pc = "readyRace"
          /\ ~Started("statusChange")
          /\ workloadExists => statusRace \in {"done", "error"}
  /\ Started("statusChange")
       => /\ race.phase = "statusChange" /\ pc = "statusRace"
          /\ workloadExists /\ statusRace = ""
          /\ ~Started("ready") /\ ~Started("tail")
  /\ ~workloadExists => (race.phase # "statusChange" /\ statusRace = "" /\ pc # "statusRace")
  /\ pc = "readyRace" => (workloadExists <=> statusRace # "")

\* an update: the status-change race has failed under --output and the
\* readiness and tail workers run after it
WaitPhaseOrderingWitness ==
  /\ workloadExists /\ statusRace = "error"
  /\ race.phase = "ready" /\ race.state["ready"] = "running" /\ race.state["tail"] = "running"

\* a create goes straight to the readiness race
WaitPhaseOrderingCreate ==
  /\ ~workloadExists /\ Has(calls, "Create") /\ race.state["ready"] = "running"

\* -------------------------------------------------------------------- C32
StatusChangeDone == race.state["statusChange"] = "done"

\* (a) of the claim: a condition with status True and a later transition time
LaterTrue(previous, e) ==
  /\ previous.readyStatus # "None"
  /\ e.readyStatus = "True" /\ e.ltt > previous.ltt

\* (b) of the claim: the condition appears for the first time
FirstAppearance(previous, e) ==
  previous.readyStatus = "None" /\ e.readyStatus # "None"

\* C32: the status-change worker completes only on a watch event that carries
\* a condition with status True whose lastTransitionTime is strictly greater
\* than that of the pre-submit Ready condition, or on the first appearance of
\* the condition when the pre-submit workload had none; events that meet
\* neither never complete it.
StatusChangeCompletion ==
  /\ StatusChangeDone
       => (LaterTrue(currentWorkload, race.event)
           \/ FirstAppearance(currentWorkload, race.event))
  /\ (race.phase = "statusChange" /\ ~sawNewer) => ~StatusChangeDone

\* a later transition time whatever the status
Later(previous, e) ==
  /\ previous.readyStatus # "None"
  /\ e.readyStatus # "None" /\ e.ltt > previous.ltt

\* C32 as the worker behaves: the status of the condition does not matter, a
\* Ready condition with a strictly greater lastTransitionTime completes the
\* worker also when its status is False or Unknown.
StatusChangeCompletionAmended ==
  /\ StatusChangeDone
       => (Later(currentWorkload, race.event)
           \/ FirstAppearance(currentWorkload, race.event))
  /\ (race.phase = "statusChange" /\ ~sawNewer) => ~StatusChangeDone
  /\ (race.phase = "statusChange" /\ race.state["statusChange"] = "running" /\ events > 0)
       => ~sawNewer

\* the stored Ready=True is followed by Ready=False with a later time
StatusChangeCompletionWitness ==
  /\ StatusChangeDone
  /\ currentWorkload.readyStatus = "True"
  /\ race.event.readyStatus = "False" /\ race.event.ltt > currentWorkload.ltt

\* an event with the stored transition time leaves the worker watching
StatusChangeStaleWitness ==
  /\ race.phase = "statusChange" /\ race.state["statusChange"] = "running"
  /\ events > 0 /\ currentWorkload.readyStatus = "True"

\* -------------------------------------------------------------------- C33
Stopped(w) == race.state[w] \in {"done", "error", "cancelled"}

\* the errors a worker can end with by itself
OwnErrors(w) ==
  {WorkerError(w)} \cup (IF w = "ready" THEN {FailedToBecomeReady(ConditionMessage)} ELSE {})

CancellationText == "context canceled"

\* C33: within a race a result of any worker (an error, the timeout) or an OS
\* interrupt cancels every other worker; a worker that has stopped holds no
\* watch and no log stream, and none is left once the race is over; a worker
\* stopped by the cancellation hands in no error: the error of the race is the
\* own error of a worker that failed, and an interrupt alone gives none.
WorkerCancellation ==
  /\ (race.verdict # "" \/ \E w \in Workers : Stopped(w)) => race.cancel
  /\ race.streams \subseteq {w \in Workers : race.state[w] = "running"}
  /\ pc \notin {"statusRace", "readyRace"} => race.streams = {}
  /\ race.verdict \notin {"", "nil"}
       => \E w \in Workers : race.state[w] = "error" /\ race.verdict \in OwnErrors(w)
  /\ (\A w \in Workers : race.state[w] # "error") => race.verdict \in {"", "nil"}
  /\ race.verdict # CancellationText
  /\ ~Has(out, CancellationText) /\ result # SilenceError(CancellationText)

\* the timeout has fired, the readiness and the tail worker were cancelled
WorkerCancellationWitness ==
  /\ race.phase = "ready" /\ race.state["timeout"] = "error"
  /\ race.state["ready"] = "cancelled" /\ race.state["tail"] = "cancelled"
  /\ race.streams = {} /\ race.verdict = TimeoutError(WaitTimeout, "w1")

\* an interrupt has stopped every worker and the race has no error
WorkerCancellationInterrupt ==
  /\ race.phase = "statusChange" /\ race.verdict = "nil"
  /\ race.state["statusChange"] = "cancelled" /\ race.state["timeout"] = "cancelled"

\* -------------------------------------------------------------------- C34
\* the steps of the workers, as opposed to those of Exec
WorkerStep ==
  /\ race.phase # "none"
  /\ race'.phase = race.phase

\* C34: from the submission of the Create/Update until the wait is over the
\* in-memory workload is left as it was submitted by every step of a worker
\* (status change, readiness, tail, timeout, cancellation); it is only changed
\* by Exec itself, which fetches it again for --output once the wait is over.
WorkersLeaveWorkload ==
  [][(WorkerStep \/ pc \in {"statusRace", "readyRace"}) => workload' = workload]_vars

\* what was submitted is still in memory while the workers run and after
\* events with another condition have been delivered
SubmittedInMemory ==
  pc \in {"statusRace", "readyRace"}
    => /\ Canonical(workload)
            = [Canonical(cluster[KeyOf(opts.Namespace, opts.Name)]) EXCEPT !.rv = @ - 1]
       /\ workload.readyStatus = currentWorkload.readyStatus
       /\ workload.ltt = currentWorkload.ltt

\* the readiness worker has seen Ready=True with a later time than the
\* workload in memory carries
WorkersLeaveWorkloadWitness ==
  /\ race.phase = "ready" /\ race.state["ready"] = "done"
  /\ race.event.readyStatus = "True" /\ race.event.ltt > workload.ltt
  /\ workload.readyStatus # "True"

\* ============================== the flow of Exec around the submission
\* apply w1 [--file F] [--local-path P] [--type T] [--dry-run] [--yes] [--wait]
FlowOptionSets ==
  { o \in [Name : {"w1"}, Namespace : {"default"}, NamespaceChanged : {FALSE},
           FilePath : {"", "workload.yaml"},
           UpdateStrategy : {mergeUpdateStrategy, replaceUpdateStrategy},
           UpdateStrategyChanged : BOOLEAN,
           Yes : BOOLEAN, DryRun : BOOLEAN, Output : {""},
           Wait : BOOLEAN, Tail : {FALSE}, TailTimestamps : {FALSE},
           LocalPath : {"", "./src"}, Type : {"", "api"},
           GitRepo : {""}, Image : {""}, MavenFlags : {""}, ParamsYamlMaven : {""},
           ServiceAccount : {NoValue}] :
      /\ (o.UpdateStrategyChanged <=> o.UpdateStrategy = replaceUpdateStrategy)
      /\ (o.UpdateStrategy = replaceUpdateStrategy => o.FilePath # "") }

FlowInit ==
  /\ args \in FlowOptionSets
  /\ opts = args
  /\ cluster \in InitialClusters
  /\ namespaces = {"default", "ns2"}
  /\ stdinFile \in (IF opts.FilePath = "" THEN {EmptyWorkload} ELSE FileWorkloads)
  /\ fileWorkload = EmptyWorkload
  /\ workload = EmptyWorkload
  /\ currentWorkload = NilWorkload
  /\ okToApply = FALSE
  /\ pc = "start"
  /\ calls = <<>>
  /\ out = <<>>
  /\ result = ""
  /\ invalidAnswers = 0
  /\ events = 0
  /\ sawNewer = FALSE
  /\ statusRace = ""
  /\ run = 1
  /\ race = NoRace

FlowNext ==
  \/ LoadInput
  \/ GetWorkload
  \/ Reconcile
  \/ DryRun
  \/ CheckLSPHealth
  \/ PublishLocalSource
  \/ BeginSubmit
  \/ Prompt
  \/ Submit
  \/ StatusChangeEvent
  \/ StatusChangeFailure
  \/ ReadyEvent
  \/ ReadyFailure

FlowSpec == FlowInit /\ [][FlowNext]_vars

\* -------------------------------------------------------------------- C35
\* what Exec does after line 512: the dry-run output, the health check and the
\* publish, the diff and the prompt, the write, the wait
EffectCalls == {c \in {calls[i] : i \in DOMAIN calls} : c \notin {"Get", "GetNamespace"}}

EffectOutput ==
  {"DryRunResource", "Diff", "Prompt", "Unchanged", "Applied", "NextSteps", "Waiting",
   "Ready", "Skipping", waitErrorForStatusChange, waitErrorForReadyCondition}

NoEffect ==
  /\ EffectCalls = {}
  /\ \A i \in DOMAIN out : out[i] \notin EffectOutput
  /\ statusRace = "" /\ events = 0 /\ ~okToApply
  /\ \A k \in Keys : cluster[k].nil \/ cluster[k].rv = 1

\* C35: when the reconciled workload fails workload.Validate(), the command
\* returns the validation error and has done nothing else: no dry-run output,
\* no health check, no publish, no diff, no prompt, no Create or Update and no
\* wait; whatever of these has happened, happened to a workload that had
\* passed the validation.
ValidationFirst ==
  /\ result = "ValidationError"
       => (pc = "done" /\ Validate(workload) # "" /\ NoEffect)
  /\ pc \in {"start", "get", "reconcile"} => NoEffect
  /\ ~NoEffect => (result # "ValidationError" /\ ~SubpathWithoutSource(workload))

\* a dry run of a file whose workload has a subpath and no source
ValidationFirstWitness ==
  /\ pc = "done" /\ result = "ValidationError" /\ opts.DryRun
  /\ workload.subPath = "sub" /\ workload.image = "" /\ workload.git = ""
  /\ calls = <<"Get", "GetNamespace">>

\* -------------------------------------------------------------------- C36
IndexOf(seq, S) == CHOOSE i \in DOMAIN seq : seq[i] \in S /\ \A j \in 1..(i - 1) : seq[j] \notin S

PublishOk == {"LSPPublish(200)", "LSPPublish(204)"}

ConsentOutput == {"Diff", "Prompt", "Unchanged", "Skipping", "Applied"}

\* C36: with --local-path and without --dry-run the health check and the
\* publish come before the diff and the prompt, in that order and before every
\* answer and every write; the workload references the published image only
\* once the publish has succeeded; a rejected prompt therefore ends with the
\* source published and no workload created or updated.
PublishBeforeConsent ==
  (opts.LocalPath # "" /\ ~opts.DryRun)
    => /\ (\E i \in DOMAIN out : out[i] \in ConsentOutput)
            => /\ Has(calls, "LSPHealth(ok)") /\ Published
               /\ IndexOf(calls, {"LSPHealth(ok)"}) < IndexOf(calls, PublishOk)
       /\ \A i \in DOMAIN calls :
            (calls[i] \in {"Create", "Update"} \/ calls[i] \in AcceptedYes \cup AcceptedNo)
              => (Published /\ IndexOf(calls, PublishOk) < i)
       /\ Published => Has(calls, "LSPHealth(ok)")
       /\ ~Published => (workload.image # LSPRef /\ workload.lspAnn # LSPRef)
       /\ pc \in {"submit", "prompt", "call"} => (Published /\ workload.image = LSPRef)
       /\ Has(out, "Skipping")
            => /\ Published /\ Writes(calls) = 0 /\ pc = "done" /\ result = "ok"
               /\ \A k \in Keys : cluster[k].nil \/ cluster[k].rv = 1

\* the prompt is answered no after the source has been published
PublishBeforeConsentWitness ==
  /\ opts.LocalPath # "" /\ ~opts.Yes /\ pc = "done" /\ result = "ok"
  /\ Has(calls, "LSPPublish(200)") /\ Last(calls) = "Answer(n)"
  /\ Last(out) = "Skipping" /\ workload.image = LSPRef
  /\ cluster[TargetKey].nil

\* -------------------------------------------------------------------- C37
WaitFlag(o) == o.Wait \/ o.Tail \/ o.TailTimestamps

WriteErrors == {"Conflict", "SilencedConflict", "WriteError"}

WaitTriggerStates ==
  /\ (race.phase # "none" \/ pc \in {"statusRace", "readyRace"})
       => (WaitFlag(opts) /\ okToApply /\ Has(out, "Waiting") = shouldPrint(opts))
  /\ ~WaitFlag(opts)
       => /\ race = NoRace /\ statusRace = "" /\ events = 0
          /\ ~Has(out, "Waiting") /\ ~Has(out, "Ready") /\ ~Has(out, "TailLine")
  /\ race.phase = "ready"
       => (race.state["ready"] # "idle" /\ (race.state["tail"] # "idle" <=> anyTail(opts)))
  /\ (Started("tail") \/ Has(out, "TailLine")) => anyTail(opts)
  /\ ~okToApply => race = NoRace

\* the step that ends the submit branch with an accepted, successful write
AcceptedApply ==
  /\ pc \in {"submit", "call"} /\ pc' \notin {"submit", "prompt", "call"}
  /\ okToApply' /\ result' \notin WriteErrors

\* C37: after an accepted apply the wait workers are started if and only if
\* --wait, --tail or --tail-timestamp is set; a tail flag alone also waits for
\* readiness; the tail worker runs only with a tail flag; with none of the
\* three flags no race is run, so no watch and no log stream is opened.
WaitTrigger ==
  /\ []WaitTriggerStates
  /\ [][AcceptedApply => (pc' \in {"statusRace", "readyRace"} <=> WaitFlag(opts))]_vars

\* --tail alone: the readiness worker and the tail worker both run
WaitTriggerWitness ==
  /\ opts.Tail /\ ~opts.Wait /\ ~opts.TailTimestamps
  /\ race.phase = "ready" /\ race.state["ready"] = "running"
  /\ race.state["tail"] = "running" /\ Has(out, "TailLine")

\* --wait alone: no tail worker
WaitTriggerNoTail ==
  /\ opts.Wait /\ ~anyTail(opts) /\ pc = "done" /\ result = "ok" /\ Has(out, "Ready")

\* none of the three flags: the apply ends without a race
WaitTriggerNoWait ==
  /\ ~WaitFlag(opts) /\ pc = "done" /\ result = "ok" /\ Has(calls, "Update") /\ okToApply

\* -------------------------------------------------------------------- C38
\* merge strategy, no --file and no flag that changes the workload
NoInput(o) ==
  /\ o.UpdateStrategy = mergeUpdateStrategy /\ o.FilePath = ""
  /\ o.Type = "" /\ o.ServiceAccount = NoValue /\ o.LocalPath = ""
  /\ o.GitRepo = "" /\ o.Image = "" /\ o.MavenFlags = "" /\ o.ParamsYamlMaven = ""

MergeIdentityLSP ==
  /\ NoInput(opts) /\ pc = "done" /\ Last(out) = "Unchanged"
  /\ workload.lspAnn = LSPRef /\ workload.image = LSPRef

\* -------------------------------------------------------------------- C39
\* the Get found nothing and the proposed workload has been built
ProposedForCreate ==
  /\ ~workloadExists
  /\ \/ pc \in {"validated", "publish", "submit", "call"}
     \/ (pc = "done" /\ Has(calls, "Create"))

\* the document of --file, or the empty workload without --file
FileBase == IF args.FilePath # "" THEN stdinFile ELSE EmptyWorkload

\* what is expected of a Get that found nothing, given the service account
\* the file is expected to leave in the proposed workload
AbsentCurrentWith(fileAccount) ==
  /\ ProposedForCreate
       => /\ workload.name = "w1" /\ workload.namespace = "default"
          /\ workload.labels["keep"] = FileBase.labels["keep"]
          /\ workload.labels["type"]
               = (IF args.Type # "" THEN args.Type
                  ELSE IF FileBase.labels["type"] # "" THEN FileBase.labels["type"]
                  ELSE "web")
          /\ workload.annotations = FileBase.annotations
          /\ workload.env = FileBase.env
          /\ workload.serviceAccountName
               = (IF args.ServiceAccount # NoValue
                    THEN (IF args.ServiceAccount = "" THEN NoValue ELSE args.ServiceAccount)
                  ELSE fileAccount)
          /\ NoSourceFlag
               => /\ workload.git = FileBase.git /\ workload.image = FileBase.image
                  /\ workload.maven = FileBase.maven /\ workload.subPath = FileBase.subPath
          \* server-populated metadata: the file's under replace (nothing of
          \* a current workload), none under merge
          /\ LET meta == IF opts.UpdateStrategy = replaceUpdateStrategy
                           THEN FileBase ELSE EmptyWorkload
             IN /\ workload.rv = meta.rv /\ workload.uid = meta.uid
                /\ workload.creationTimestamp = meta.creationTimestamp
          /\ workload.readyStatus = "None"
  /\ (~workloadExists /\ pc \notin {"validate", "start", "get"}) => ~Has(calls, "Update")
  /\ (pc = "done" /\ result = "ok" /\ cluster[TargetKey].nil) => Writes(calls) = 0
  /\ (pc = "done" /\ result = "ok" /\ Has(calls, "GetNamespace"))
       => (Last(calls) = "Create" /\ ~cluster[TargetKey].nil)

\* C39: when the workload does not exist on the cluster, the proposed workload
\* is the file workload (the empty workload without a file) under merge and
\* under replace alike, with the flags on top; nothing comes from a current
\* workload; the write is a Create, never an Update, and the absence itself
\* makes no error.
AbsentCurrent == AbsentCurrentWith(FileBase.serviceAccountName)

\* C39 amended: as above, except that under merge a serviceAccountName the
\* file sets to the empty string is dropped from the proposed workload, while
\* under replace it stays the empty string.
AbsentCurrentAmended ==
  AbsentCurrentWith(IF /\ opts.UpdateStrategy = mergeUpdateStrategy
                       /\ FileBase.serviceAccountName = ""
                      THEN NoValue ELSE FileBase.serviceAccountName)

\* a create under replace from a file, with a flag on top
AbsentCurrentWitness ==
  /\ pc = "done" /\ result = "ok" /\ Last(calls) = "Create"
  /\ opts.UpdateStrategy = replaceUpdateStrategy /\ args.Type = "api"
  /\ stdinFile.image = "imgF"
  /\ cluster[TargetKey].image = "imgF"
  /\ cluster[TargetKey].labels["type"] = "api"

\* a create under merge without a file
AbsentCurrentNoFile ==
  /\ pc = "done" /\ result = "ok" /\ Last(calls) = "Create"
  /\ args.FilePath = "" /\ args.GitRepo = "repo2"
  /\ cluster[TargetKey].git = "repo2"

====
